---- MODULE Spec2Model ----
(***************************************************************************)
(* Model of the recommendation scoring engine of the movie                 *)
(* recommendations API: RecommendationEngine (collaborative, content,      *)
(* hybrid), AIService (external-AI strategy and its fallbacks) and the     *)
(* getRecommendations controller that dispatches on the algorithm name.    *)
(*                                                                         *)
(* Numbers.  Scores are JavaScript numbers.  The model keeps them as exact *)
(* rationals [n, d] (d > 0, lowest terms) and keeps NaN as a value of its  *)
(* own, [n |-> 0, d |-> 0], which every arithmetic operator propagates.    *)
(* A Pearson correlation is kept exactly as the pair [num, densq] standing *)
(* for num / sqrt(densq); where the code multiplies a rating by it, the    *)
(* model uses its value truncated to 1/SimScale.                           *)
(* Quality scores (Movie.rating, 0..10) are kept in tenths; 0 stands for   *)
(* an absent score (both are falsy in the code's tests).                   *)
(***************************************************************************)
EXTENDS Integers, Sequences, FiniteSets, TLC

\* movies, ratings: the stored catalog and rating records.
\* response: the answer of the recommendation request served from them.
\* locals: the two lists generateHybridRecommendations merged for that answer.
VARIABLES movies, ratings, response, locals, cache, now

vars == <<movies, ratings, response, locals, cache, now>>

-----------------------------------------------------------------------------
(* Bounds of the model *)

MaxMovies == 3

MaxLimit == 3

-----------------------------------------------------------------------------
(* Exact rational arithmetic with NaN *)

RECURSIVE GCD(_, _)
GCD(a, b) == IF b = 0 THEN a ELSE GCD(b, a % b)

Abs(x) == IF x < 0 THEN -x ELSE x

NaN == [n |-> 0, d |-> 0]

IsNaN(x) == x.d = 0

Rat(n, d) ==
  LET g == GCD(Abs(n), Abs(d))
      s == IF d < 0 THEN -1 ELSE 1
  IN  IF d = 0 THEN NaN ELSE [n |-> s * (n \div g), d |-> s * (d \div g)]

Num(k) == [n |-> k, d |-> 1]

Add(a, b) == IF IsNaN(a) \/ IsNaN(b) THEN NaN ELSE Rat(a.n * b.d + b.n * a.d, a.d * b.d)

Sub(a, b) == IF IsNaN(a) \/ IsNaN(b) THEN NaN ELSE Rat(a.n * b.d - b.n * a.d, a.d * b.d)

Mul(a, b) == IF IsNaN(a) \/ IsNaN(b) THEN NaN ELSE Rat(a.n * b.n, a.d * b.d)

\* a / b.  The only zero divisor the code can meet is 0 / 0 (an empty genre
\* union has an empty overlap), which JavaScript evaluates to NaN.
Div(a, b) == IF IsNaN(a) \/ IsNaN(b) \/ b.n = 0 THEN NaN ELSE Rat(a.n * b.d, a.d * b.n)

Less(a, b) == ~IsNaN(a) /\ ~IsNaN(b) /\ a.n * b.d < b.n * a.d

Leq(a, b) == ~IsNaN(a) /\ ~IsNaN(b) /\ a.n * b.d <= b.n * a.d

Ceil(a) == IF a.n % a.d = 0 THEN a.n \div a.d ELSE (a.n \div a.d) + 1

-----------------------------------------------------------------------------
(* Sequences as JavaScript arrays *)

Range(s) == {s[i] : i \in 1..Len(s)}

Slice(s, k) == SubSeq(s, 1, IF k < Len(s) THEN k ELSE Len(s))

Reverse(s) == [i \in 1..Len(s) |-> s[Len(s) + 1 - i]]

RECURSIVE Perms(_)
Perms(S) ==
  IF S = {} THEN {<<>>}
  ELSE UNION {{<<x>> \o p : p \in Perms(S \ {x})} : x \in S}

RECURSIVE Join(_, _)
Join(s, sep) ==
  IF Len(s) = 0 THEN ""
  ELSE IF Len(s) = 1 THEN s[1]
  ELSE s[1] \o sep \o Join(Tail(s), sep)

\* Array.prototype.sort with a consistent comparator: stable.  before[i, j]
\* holds when the comparator returns a negative number for (s[i], s[j]).
StableSort(s, before) ==
  LET rank(i) == 1 + Cardinality({j \in 1..Len(s) :
                     before[j, i] \/ (j < i /\ ~before[i, j])})
  IN  [k \in 1..Len(s) |-> s[CHOOSE i \in 1..Len(s) : rank(i) = k]]

\* The comparator (a, b) => b.score - a.score over the elements of recs
ByScore(recs) == [i, j \in 1..Len(recs) |-> Less(recs[j].score, recs[i].score)]

RECURSIVE SumSeq(_)
SumSeq(s) == IF Len(s) = 0 THEN 0 ELSE Head(s) + SumSeq(Tail(s))

-----------------------------------------------------------------------------
(* Similarity Calculator: RecommendationEngine.calculateUserSimilarity *)

Zero == [num |-> 0, densq |-> 1]

\* user2Ratings.find(r2 => r2.movieId === r1.movieId)
FindRating(userRatings, movieId) ==
  userRatings[CHOOSE i \in 1..Len(userRatings) :
     /\ userRatings[i].movieId = movieId
     /\ \A j \in 1..(i - 1) : userRatings[j].movieId # movieId]

commonMoviesOf(user1Ratings, user2Ratings) ==
  SelectSeq(user1Ratings,
            LAMBDA r1 : \E i \in 1..Len(user2Ratings) : user2Ratings[i].movieId = r1.movieId)

\* calculateUserSimilarity reading the second subject's rating at the same
\* index instead of looking it up by movie
calculateUserSimilarity_byIndex(user1Ratings, user2Ratings) ==
  LET commonMovies == commonMoviesOf(user1Ratings, user2Ratings)
      n == Len(commonMovies)
      user1CommonRatings == [i \in 1..n |-> commonMovies[i].rating]
      user2CommonRatings == [i \in 1..n |-> user2Ratings[i].rating]
      sum1 == SumSeq(user1CommonRatings)
      sum2 == SumSeq(user2CommonRatings)
      sum1Sq == SumSeq([i \in 1..n |-> user1CommonRatings[i] * user1CommonRatings[i]])
      sum2Sq == SumSeq([i \in 1..n |-> user2CommonRatings[i] * user2CommonRatings[i]])
      pSum == SumSeq([i \in 1..n |-> user1CommonRatings[i] * user2CommonRatings[i]])
      num == n * pSum - sum1 * sum2
      densq == (n * sum1Sq - sum1 * sum1) * (n * sum2Sq - sum2 * sum2)
  IN  IF n < 2 THEN Zero
      ELSE IF densq = 0 THEN Zero
      ELSE [num |-> num, densq |-> densq]

\* calculateUserSimilarity without the test den === 0
calculateUserSimilarity_noZeroTest(user1Ratings, user2Ratings) ==
  LET commonMovies == commonMoviesOf(user1Ratings, user2Ratings)
      n == Len(commonMovies)
      user1CommonRatings == [i \in 1..n |-> commonMovies[i].rating]
      user2CommonRatings ==
        [i \in 1..n |-> FindRating(user2Ratings, commonMovies[i].movieId).rating]
      sum1 == SumSeq(user1CommonRatings)
      sum2 == SumSeq(user2CommonRatings)
      sum1Sq == SumSeq([i \in 1..n |-> user1CommonRatings[i] * user1CommonRatings[i]])
      sum2Sq == SumSeq([i \in 1..n |-> user2CommonRatings[i] * user2CommonRatings[i]])
      pSum == SumSeq([i \in 1..n |-> user1CommonRatings[i] * user2CommonRatings[i]])
      num == n * pSum - sum1 * sum2
      densq == (n * sum1Sq - sum1 * sum1) * (n * sum2Sq - sum2 * sum2)
  IN  IF n < 2 THEN Zero
      ELSE [num |-> num, densq |-> densq]

\* The value is num / sqrt(densq); the code's num and den are both this
\* pair's divided by n, which cancels in the quotient and leaves the test
\* den === 0 unchanged.
calculateUserSimilarity(user1Ratings, user2Ratings) ==
  LET commonMovies == commonMoviesOf(user1Ratings, user2Ratings)
      n == Len(commonMovies)
      user1CommonRatings == [i \in 1..n |-> commonMovies[i].rating]
      user2CommonRatings ==
        [i \in 1..n |-> FindRating(user2Ratings, commonMovies[i].movieId).rating]
      sum1 == SumSeq(user1CommonRatings)
      sum2 == SumSeq(user2CommonRatings)
      sum1Sq == SumSeq([i \in 1..n |-> user1CommonRatings[i] * user1CommonRatings[i]])
      sum2Sq == SumSeq([i \in 1..n |-> user2CommonRatings[i] * user2CommonRatings[i]])
      pSum == SumSeq([i \in 1..n |-> user1CommonRatings[i] * user2CommonRatings[i]])
      num == n * pSum - sum1 * sum2
      densq == (n * sum1Sq - sum1 * sum1) * (n * sum2Sq - sum2 * sum2)
  IN  IF n < 2 THEN Zero
      ELSE IF densq = 0 THEN Zero
      ELSE [num |-> num, densq |-> densq]

\* similarity > 0.3, decided exactly: num > 0 and num^2 / densq > 9/100
AboveThreshold(sim) == sim.num > 0 /\ 100 * sim.num * sim.num > 9 * sim.densq

\* a.similarity > b.similarity for two similarities above the threshold
SimGreater(a, b) == a.num * a.num * b.densq > b.num * b.num * a.densq

SimScale == 1000

\* The similarity as a number, truncated to 1/SimScale (exact when the
\* correlation is 1, as it is whenever two subjects share exactly two items).
SimValue(sim) ==
  LET k == IF sim.num * sim.num = sim.densq THEN SimScale ELSE
           CHOOSE q \in 0..SimScale :
             /\ q * q * sim.densq <= SimScale * SimScale * sim.num * sim.num
             /\ (q = SimScale \/ (q + 1) * (q + 1) * sim.densq
                                   > SimScale * SimScale * sim.num * sim.num)
  IN  Rat(k, SimScale)

ratingsOf(allRatings, userId) == SelectSeq(allRatings, LAMBDA r : r.userId = userId)

\* findSimilarUsers without the filter that drops the target
findSimilarUsers_withTarget(targetUserId, allRatings, allUsers) ==
  LET targetUserRatings == ratingsOf(allRatings, targetUserId)
      others == allUsers
      scored == [i \in 1..Len(others) |->
                   [user |-> others[i],
                    similarity |-> calculateUserSimilarity(
                                     targetUserRatings, ratingsOf(allRatings, others[i]))]]
      kept == SelectSeq(scored, LAMBDA item : AboveThreshold(item.similarity))
  IN  Slice(StableSort(kept, [i, j \in 1..Len(kept) |->
                             SimGreater(kept[i].similarity, kept[j].similarity)]), 10)

findSimilarUsers(targetUserId, allRatings, allUsers) ==
  LET targetUserRatings == ratingsOf(allRatings, targetUserId)
      others == SelectSeq(allUsers, LAMBDA user : user # targetUserId)
      scored == [i \in 1..Len(others) |->
                   [user |-> others[i],
                    similarity |-> calculateUserSimilarity(
                                     targetUserRatings, ratingsOf(allRatings, others[i]))]]
      kept == SelectSeq(scored, LAMBDA item : AboveThreshold(item.similarity))
  IN  Slice(StableSort(kept, [i, j \in 1..Len(kept) |->
                             SimGreater(kept[i].similarity, kept[j].similarity)]), 10)

-----------------------------------------------------------------------------
(* Sorting a list of recommendations by score *)

\* A NaN score makes the comparator return NaN, which sort treats as 0.  The
\* comparator is then consistent only if all the other scores are equal;
\* otherwise ECMAScript leaves the resulting order implementation-defined.
ConsistentScores(recs) ==
  \/ \A i \in 1..Len(recs) : ~IsNaN(recs[i].score)
  \/ \A i, j \in 1..Len(recs) :
       (~IsNaN(recs[i].score) /\ ~IsNaN(recs[j].score)) => recs[i].score = recs[j].score

\* The possible results of recs.sort((a, b) => b.score - a.score)
SortByScore(recs) ==
  IF ConsistentScores(recs) THEN {StableSort(recs, ByScore(recs))}
  ELSE {[i \in 1..Len(recs) |-> recs[p[i]]] : p \in Perms(1..Len(recs))}

-----------------------------------------------------------------------------
(* Fallback Policy: RecommendationEngine.getPopularMovies *)

\* A lookup that answers the first movie whatever the id asked for
findMovie_first(allMovies, movieId) == <<allMovies[1]>>

findMovie(allMovies, movieId) ==
  LET hits == SelectSeq(allMovies, LAMBDA m : m.id = movieId)
  IN  IF Len(hits) = 0 THEN <<>> ELSE <<hits[1]>>

\* getPopularMovies with the threshold test written > 7 instead of >= 7
getPopularMovies_above7(allMovies, limit) ==
  LET rated == SelectSeq(allMovies, LAMBDA movie : movie.rating # 0 /\ movie.rating > 70)
      sorted == StableSort(rated, [i, j \in 1..Len(rated) |-> rated[j].rating - rated[i].rating < 0])
      top == Slice(sorted, limit)
  IN  [index \in 1..Len(top) |->
         [movie |-> top[index],
          score |-> Sub(Rat(80, 100), Mul(Num(index - 1), Rat(5, 100))),
          reason |-> "Popular highly-rated movie"]]

\* getPopularMovies with a step of 0.1 per rank instead of 0.05
getPopularMovies_step10(allMovies, limit) ==
  LET rated == SelectSeq(allMovies, LAMBDA movie : movie.rating # 0 /\ movie.rating >= 70)
      sorted == StableSort(rated, [i, j \in 1..Len(rated) |-> rated[j].rating - rated[i].rating < 0])
      top == Slice(sorted, limit)
  IN  [index \in 1..Len(top) |->
         [movie |-> top[index],
          score |-> Sub(Rat(80, 100), Mul(Num(index - 1), Rat(10, 100))),
          reason |-> "Popular highly-rated movie"]]

getPopularMovies(allMovies, limit) ==
  LET rated == SelectSeq(allMovies, LAMBDA movie : movie.rating # 0 /\ movie.rating >= 70)
      sorted == StableSort(rated, [i, j \in 1..Len(rated) |-> rated[j].rating - rated[i].rating < 0])
      top == Slice(sorted, limit)
  IN  [index \in 1..Len(top) |->
         [movie |-> top[index],
          score |-> Sub(Rat(80, 100), Mul(Num(index - 1), Rat(5, 100))),
          reason |-> "Popular highly-rated movie"]]

-----------------------------------------------------------------------------
(* Collaborative Recommender *)

\* The favourable ratings of the neighbours, in the order the two nested
\* forEach loops visit them
RECURSIVE neighbourVotes(_, _, _)
neighbourVotes(similarUsers, allRatings, watchedMovieIds) ==
  IF Len(similarUsers) = 0 THEN <<>>
  ELSE LET su == Head(similarUsers)
           userRatings == SelectSeq(allRatings, LAMBDA r :
                             /\ r.userId = su.user
                             /\ r.liked
                             /\ r.rating >= 4
                             /\ r.movieId \notin watchedMovieIds)
       IN  [i \in 1..Len(userRatings) |->
              [movieId |-> userRatings[i].movieId,
               vote |-> Mul(Num(userRatings[i].rating), SimValue(su.similarity))]]
           \o neighbourVotes(Tail(similarUsers), allRatings, watchedMovieIds)

\* movieScores, a Map: its entries in insertion order
RECURSIVE movieScoresOf(_, _)
movieScoresOf(votes, acc) ==
  IF Len(votes) = 0 THEN acc
  ELSE LET v == Head(votes)
           at == {i \in 1..Len(acc) : acc[i].movieId = v.movieId}
       IN  IF at = {}
           THEN movieScoresOf(Tail(votes),
                  Append(acc, [movieId |-> v.movieId, score |-> v.vote, count |-> 1]))
           ELSE LET i == CHOOSE k \in at : TRUE
                IN  movieScoresOf(Tail(votes),
                      [acc EXCEPT ![i] = [movieId |-> v.movieId,
                                          score |-> Add(acc[i].score, v.vote),
                                          count |-> acc[i].count + 1]])

collaborativeReason(count) ==
  "Recommended by " \o ToString(count) \o " similar user" \o (IF count > 1 THEN "s" ELSE "")

\* collectRecommendations with the test if (movie) dropped: every scored
\* movie id gets an entry, in the catalog or not
RECURSIVE collectRecommendations_anyMovie(_, _)
collectRecommendations_anyMovie(movieScores, allMovies) ==
  IF Len(movieScores) = 0 THEN <<>>
  ELSE LET e == Head(movieScores)
           movie == <<[id |-> e.movieId, genre |-> <<>>, director |-> "", year |-> 0, rating |-> 0]>>
           rest == collectRecommendations_anyMovie(Tail(movieScores), allMovies)
       IN  IF Len(movie) = 0 THEN rest
           ELSE <<[movie |-> movie[1],
                   score |-> Div(e.score, Num(e.count)),
                   reason |-> collaborativeReason(e.count)]>> \o rest

RECURSIVE collectRecommendations(_, _)
collectRecommendations(movieScores, allMovies) ==
  IF Len(movieScores) = 0 THEN <<>>
  ELSE LET e == Head(movieScores)
           movie == findMovie(allMovies, e.movieId)
           rest == collectRecommendations(Tail(movieScores), allMovies)
       IN  IF Len(movie) = 0 THEN rest
           ELSE <<[movie |-> movie[1],
                   score |-> Div(e.score, Num(e.count)),
                   reason |-> collaborativeReason(e.count)]>> \o rest

getRecommendationsFromSimilarUsers(targetUserId, similarUsers, allRatings, allMovies, limit) ==
  LET targetUserRatings == ratingsOf(allRatings, targetUserId)
      watchedMovieIds == {targetUserRatings[i].movieId : i \in 1..Len(targetUserRatings)}
      movieScores == movieScoresOf(
                        neighbourVotes(similarUsers, allRatings, watchedMovieIds), <<>>)
      recommendations == collectRecommendations(movieScores, allMovies)
  IN  {Slice(sorted, limit) : sorted \in SortByScore(recommendations)}

\* The lists generateCollaborativeRecommendations can return
generateCollaborativeRecommendations(targetUserId, allMovies, allRatings, allUsers, limit) ==
  LET targetUserRatings == ratingsOf(allRatings, targetUserId)
  IN  IF Len(targetUserRatings) = 0 THEN {getPopularMovies(allMovies, limit)}
      ELSE getRecommendationsFromSimilarUsers(
             targetUserId, findSimilarUsers(targetUserId, allRatings, allUsers),
             allRatings, allMovies, limit)

-----------------------------------------------------------------------------
(* Content Recommender *)

\* movie.genre.filter(g => likedMovie.genre.includes(g)).length
genreOverlapOf(movie, likedMovie) ==
  Len(SelectSeq(movie.genre, LAMBDA g : g \in Range(likedMovie.genre)))

\* new Set([...movie.genre, ...likedMovie.genre]).size
genreUnionOf(movie, likedMovie) ==
  Cardinality(Range(movie.genre) \cup Range(likedMovie.genre))

\* The similarity of one candidate to one liked movie (the body of the forEach)
similarityTo(movie, likedMovie) ==
  LET genrePart == Mul(Div(Num(genreOverlapOf(movie, likedMovie)),
                           Num(genreUnionOf(movie, likedMovie))), Rat(5, 10))
      directorPart == IF movie.director # "" /\ likedMovie.director # ""
                         /\ movie.director = likedMovie.director
                      THEN Rat(20, 100) ELSE Num(0)
      yearDiff == Abs(movie.year - likedMovie.year)
      yearPart == IF yearDiff <= 5 THEN Rat(15, 100)
                  ELSE IF yearDiff <= 15 THEN Rat(10, 100) ELSE Num(0)
      ratingPart == IF movie.rating # 0 /\ likedMovie.rating # 0
                       /\ Abs(movie.rating - likedMovie.rating) <= 10
                    THEN Rat(15, 100) ELSE Num(0)
  IN  Add(Add(Add(genrePart, directorPart), yearPart), ratingPart)

RECURSIVE totalSimilarityOf(_, _)
totalSimilarityOf(movie, likedMovies) ==
  IF Len(likedMovies) = 0 THEN Num(0)
  ELSE Add(similarityTo(movie, Head(likedMovies)),
           totalSimilarityOf(movie, Tail(likedMovies)))

calculateContentSimilarity(movie, likedMovies) ==
  IF Len(likedMovies) > 0
  THEN Div(totalSimilarityOf(movie, likedMovies), Num(Len(likedMovies)))
  ELSE Num(0)

generateContentReason(movie, likedMovies) ==
  LET commonGenres == SelectSeq(movie.genre, LAMBDA g :
                         \E i \in 1..Len(likedMovies) : g \in Range(likedMovies[i].genre))
      commonDirectors == SelectSeq(likedMovies, LAMBDA liked :
                            movie.director # "" /\ liked.director = movie.director)
      genreReason == IF Len(commonGenres) > 0
                     THEN <<"shares " \o Join(commonGenres, ", ") \o " genre"
                              \o (IF Len(commonGenres) > 1 THEN "s" ELSE "")>>
                     ELSE <<>>
      directorReason == IF Len(commonDirectors) > 0
                        THEN <<"same director as liked movies">> ELSE <<>>
      reasons == genreReason \o directorReason
  IN  IF Len(reasons) > 0
      THEN "Recommended because it " \o Join(reasons, " and ")
      ELSE "Similar to your preferences"

\* The movies of the ratings, in order, skipping a rating whose movie
\* db.getMovieById does not find
RECURSIVE moviesOfRatings(_, _)
moviesOfRatings(rs, dbMovies) ==
  IF Len(rs) = 0 THEN <<>>
  ELSE findMovie(dbMovies, Head(rs).movieId) \o moviesOfRatings(Tail(rs), dbMovies)

\* The lists generateContentBasedRecommendations can return; userRatings is
\* db.getUserRatings(targetUserId)
generateContentBasedRecommendations(targetUserId, allMovies, userRatings, dbMovies, limit) ==
  LET likedMovies == moviesOfRatings(
                       SelectSeq(userRatings, LAMBDA r : r.liked /\ r.rating >= 4), dbMovies)
      unseen == SelectSeq(allMovies, LAMBDA movie :
                  ~\E i \in 1..Len(userRatings) : userRatings[i].movieId = movie.id)
      scored == [i \in 1..Len(unseen) |->
                   [movie |-> unseen[i],
                    score |-> calculateContentSimilarity(unseen[i], likedMovies),
                    reason |-> generateContentReason(unseen[i], likedMovies)]]
  IN  IF Len(likedMovies) = 0 THEN {getPopularMovies(allMovies, limit)}
      ELSE {Slice(sorted, limit) : sorted \in SortByScore(scored)}

-----------------------------------------------------------------------------
(* Fusion Recommender *)

collaborativeEntries(collaborativeRecs) ==
  [i \in 1..Len(collaborativeRecs) |->
     [movie |-> collaborativeRecs[i].movie,
      score |-> Mul(collaborativeRecs[i].score, Rat(6, 10)),
      reason |-> collaborativeRecs[i].reason \o " (collaborative filtering)"]]

\* contentBasedRecs.forEach over combinedRecs, a Map in insertion order
RECURSIVE combineContent(_, _)
combineContent(contentBasedRecs, combinedRecs) ==
  IF Len(contentBasedRecs) = 0 THEN combinedRecs
  ELSE LET rec == Head(contentBasedRecs)
           at == {i \in 1..Len(combinedRecs) : combinedRecs[i].movie.id = rec.movie.id}
       IN  IF at # {}
           THEN LET i == CHOOSE k \in at : TRUE
                    existing == combinedRecs[i]
                IN  combineContent(Tail(contentBasedRecs),
                      [combinedRecs EXCEPT ![i] =
                         [movie |-> existing.movie,
                          score |-> Div(Add(existing.score, Mul(rec.score, Rat(4, 10))),
                                        Rat(14, 10)),
                          reason |-> existing.reason \o " + content similarity"]])
           ELSE combineContent(Tail(contentBasedRecs),
                  Append(combinedRecs,
                         [movie |-> rec.movie,
                          score |-> Mul(rec.score, Rat(4, 10)),
                          reason |-> rec.reason \o " (content-based)"]))

collaborativeShare(limit) == Ceil(Mul(Num(limit), Rat(6, 10)))

contentShare(limit) == Ceil(Mul(Num(limit), Rat(4, 10)))

\* The results of merging one collaborative list with one content list
combineRecommendations(collaborativeRecs, contentBasedRecs, limit) ==
  {Slice(sorted, limit) : sorted \in
     SortByScore(combineContent(contentBasedRecs, collaborativeEntries(collaborativeRecs)))}

\* What generateHybridRecommendations can do: the two lists it obtains and
\* the list it returns
generateHybridRecommendations(targetUserId, allMovies, allRatings, allUsers, userRatings, dbMovies, limit) ==
  UNION {{[collaborativeRecs |-> collaborativeRecs,
           contentBasedRecs |-> contentBasedRecs,
           data |-> data] :
            data \in combineRecommendations(collaborativeRecs, contentBasedRecs, limit)} :
           <<collaborativeRecs, contentBasedRecs>> \in
             generateCollaborativeRecommendations(
               targetUserId, allMovies, allRatings, allUsers, collaborativeShare(limit))
             \X generateContentBasedRecommendations(
               targetUserId, allMovies, userRatings, dbMovies, contentShare(limit))}

-----------------------------------------------------------------------------
(* External-AI strategy: AIService *)

AI_getPopularMovies(allMovies) ==
  LET byYear == [i, j \in 1..Len(allMovies) |-> allMovies[j].year - allMovies[i].year < 0]
      top == Slice(StableSort(allMovies, byYear), 10)
  IN  [index \in 1..Len(top) |->
         [movie |-> top[index],
          score |-> Sub(Rat(80, 100), Mul(Num(index - 1), Rat(5, 100))),
          reason |-> "Popular recent movie"]]

\* The genres of the movies in order of first occurrence (the keys of genreCount)
RECURSIVE genreKeys(_, _)
genreKeys(gs, acc) ==
  IF Len(gs) = 0 THEN acc
  ELSE genreKeys(Tail(gs), IF Head(gs) \in Range(acc) THEN acc ELSE Append(acc, Head(gs)))

RECURSIVE allGenresOf(_)
allGenresOf(ms) == IF Len(ms) = 0 THEN <<>> ELSE Head(ms).genre \o allGenresOf(Tail(ms))

extractGenres(ms) ==
  LET all == allGenresOf(ms)
      genreCount(g) == Len(SelectSeq(all, LAMBDA x : x = g))
      keys == genreKeys(all, <<>>)
  IN  Slice(StableSort(keys, [i, j \in 1..Len(keys) |->
                                genreCount(keys[j]) - genreCount(keys[i]) < 0]), 5)

\* Math.round(sum / count) for a positive sum
RoundDiv(sum, count) == (2 * sum + count) \div (2 * count)

getFallbackRecommendations(likedMovies, allMovies) ==
  LET likedGenres == extractGenres(likedMovies)
      avgYear == IF Len(likedMovies) > 0
                 THEN RoundDiv(SumSeq([i \in 1..Len(likedMovies) |-> likedMovies[i].year]),
                               Len(likedMovies))
                 ELSE 2000
      others == SelectSeq(allMovies, LAMBDA movie :
                  ~\E i \in 1..Len(likedMovies) : likedMovies[i].id = movie.id)
      genreMatch(movie) == \E g \in Range(movie.genre) : g \in Range(likedGenres)
      yearDiff(movie) == Abs(movie.year - avgYear)
      scoreOf(movie) ==
        10 + (IF genreMatch(movie) THEN 40 ELSE 0)
           + (IF yearDiff(movie) <= 5 THEN 30 ELSE IF yearDiff(movie) <= 15 THEN 20 ELSE 0)
           + (IF movie.year > 2010 THEN 10 ELSE 0)
      reasons(movie) == (IF genreMatch(movie) THEN <<"similar genres">> ELSE <<>>)
                        \o (IF yearDiff(movie) <= 5 THEN <<"similar time period">> ELSE <<>>)
      scored == [i \in 1..Len(others) |->
                  [movie |-> others[i],
                   score |-> Rat(IF scoreOf(others[i]) < 100 THEN scoreOf(others[i]) ELSE 100,
                                 100),
                   reason |-> IF Len(reasons(others[i])) > 0
                              THEN "Recommended due to " \o Join(reasons(others[i]), " and ")
                              ELSE "Popular choice"]]
  IN  Slice(StableSort(scored, ByScore(scored)), 10)

\* parseAIResponse on a response that is a JSON array of {movieId, score, reason}
RECURSIVE parsedRecommendations(_, _)
parsedRecommendations(aiRecommendations, allMovies) ==
  IF Len(aiRecommendations) = 0 THEN <<>>
  ELSE LET rec == Head(aiRecommendations)
           movie == findMovie(allMovies, rec.movieId)
           given == IF rec.score.n = 0 THEN Rat(5, 10) ELSE rec.score
           capped == IF Less(Num(1), given) THEN Num(1) ELSE given
           rest == parsedRecommendations(Tail(aiRecommendations), allMovies)
       IN  IF Len(movie) = 0 THEN rest
           ELSE <<[movie |-> movie[1],
                   score |-> IF Less(capped, Rat(1, 10)) THEN Rat(1, 10) ELSE capped,
                   reason |-> IF rec.reason = ""
                              THEN "AI recommended based on your preferences"
                              ELSE rec.reason]>> \o rest

parseAIResponse(ai, allMovies) ==
  IF ai.kind = "json"
  THEN LET parsed == parsedRecommendations(ai.recs, allMovies)
       IN  StableSort(parsed, ByScore(parsed))
  ELSE <<>>

\* ai is what the OpenAI collaborator does for this call: "unconfigured" (no
\* client), "error" (the call throws or answers without content), "garbage"
\* (content that is not a JSON array) or "json" with the array it answers.
AI_generateRecommendations(userRatings, allMovies, likedMovies, ai) ==
  IF Len(likedMovies) = 0 THEN AI_getPopularMovies(allMovies)
  ELSE IF ai.kind = "unconfigured" THEN getFallbackRecommendations(likedMovies, allMovies)
  ELSE IF ai.kind = "error" THEN getFallbackRecommendations(likedMovies, allMovies)
  ELSE Slice(parseAIResponse(ai, allMovies), 10)

-----------------------------------------------------------------------------
(* The snapshots a request is served from *)

Movie(id, genre, director, year, rating) ==
  [id |-> id, genre |-> genre, director |-> director, year |-> year, rating |-> rating]

\* The movies a catalog is drawn from.  director "" and rating 0 stand for
\* an absent director and an absent quality score.
MovieTable ==
  <<Movie(1, <<"action", "sci-fi">>, "nolan", 2010, 88),
    Movie(2, <<"sci-fi">>, "nolan", 2012, 85),
    Movie(3, <<"action">>, "", 1990, 60),
    Movie(4, <<>>, "", 2000, 0),
    Movie(5, <<>>, "", 2020, 70),
    Movie(6, <<"action", "action">>, "", 1992, 65)>>

MovieIds == 1..Len(MovieTable)

\* db.getMovies(): any MaxMovies or fewer distinct movies, in any order
Catalogs ==
  UNION {{[i \in 1..Len(p) |-> MovieTable[p[i]]] : p \in Perms(S)} :
           S \in {T \in SUBSET MovieIds : Cardinality(T) <= MaxMovies}}

Rating(userId, movieId, rating, liked) ==
  [userId |-> userId, movieId |-> movieId, rating |-> rating, liked |-> liked]

allUsers == <<"u1", "u2", "u3">>

\* The rating histories each subject is drawn from (one rating per movie)
RatingVectors(u) ==
  IF u = "u1" THEN
    {<<>>,
     <<Rating(u, 1, 5, TRUE), Rating(u, 2, 4, TRUE)>>,
     <<Rating(u, 1, 5, TRUE), Rating(u, 2, 5, TRUE)>>,
     <<Rating(u, 1, 5, TRUE), Rating(u, 3, 2, FALSE)>>,
     <<Rating(u, 4, 5, TRUE), Rating(u, 1, 3, FALSE)>>,
     <<Rating(u, 3, 4, TRUE), Rating(u, 1, 2, FALSE)>>,
     <<Rating(u, 1, 4, FALSE)>>,
     <<Rating(u, 1, 5, TRUE), Rating(u, 2, 4, TRUE), Rating(u, 3, 2, FALSE)>>}
  ELSE IF u = "u2" THEN
    {<<>>,
     <<Rating(u, 1, 5, TRUE), Rating(u, 2, 4, TRUE), Rating(u, 3, 5, TRUE)>>,
     <<Rating(u, 1, 4, TRUE), Rating(u, 3, 1, FALSE), Rating(u, 5, 5, TRUE)>>,
     <<Rating(u, 1, 2, FALSE), Rating(u, 2, 5, TRUE), Rating(u, 6, 4, TRUE)>>}
  ELSE
    {<<>>,
     <<Rating(u, 2, 4, TRUE), Rating(u, 1, 5, TRUE), Rating(u, 3, 4, TRUE),
       Rating(u, 4, 5, TRUE)>>,
     <<Rating(u, 1, 4, TRUE), Rating(u, 2, 4, TRUE), Rating(u, 3, 1, FALSE),
       Rating(u, 5, 5, TRUE), Rating(u, 6, 4, TRUE)>>}

\* The subjects that ask for recommendations
Subjects == {"u1"}

Limits == 1..MaxLimit

\* What the OpenAI collaborator can do for one call
AIOutcomes ==
  {[kind |-> "unconfigured", recs |-> <<>>],
   [kind |-> "error", recs |-> <<>>],
   [kind |-> "garbage", recs |-> <<>>],
   [kind |-> "json", recs |-> <<>>],
   [kind |-> "json", recs |-> <<[movieId |-> 2, score |-> Rat(95, 100), reason |-> ""],
                               [movieId |-> 5, score |-> Num(0), reason |-> "a classic"]>>]}

-----------------------------------------------------------------------------
(* Storage collaborator: DatabaseService *)

\* db.getAllRatings(): the ratings in the order they were created
getAllRatings == ratings

\* db.getUserRatings(userId): orderBy createdAt desc
getUserRatings(userId) == Reverse(ratingsOf(ratings, userId))

\* db.getAllUsers()
getAllUsers == allUsers

-----------------------------------------------------------------------------
(* recommendationController.getRecommendations *)

NoResponse == [status |-> "none"]

\* new NodeCache(...): no key
NoCache == <<>>

NoLocals == [collaborativeRecs |-> <<>>, contentBasedRecs |-> <<>>]

Response(userId, algorithm, limit, data) ==
  [status |-> "ok", userId |-> userId, algorithm |-> algorithm, limit |-> limit, data |-> data]

Init ==
  /\ movies \in Catalogs
  /\ \E r1 \in RatingVectors("u1"), r2 \in RatingVectors("u2"), r3 \in RatingVectors("u3") :
       ratings = r1 \o r2 \o r3
  /\ response = NoResponse
  /\ locals = NoLocals
  /\ cache = NoCache
  /\ now = 0

Collaborative(userId, limit) ==
  /\ response = NoResponse
  /\ \E data \in generateCollaborativeRecommendations(
                   userId, movies, getAllRatings, getAllUsers, limit) :
       response' = Response(userId, "collaborative", limit, data)
  /\ UNCHANGED <<movies, ratings, locals, cache, now>>

Content(userId, limit) ==
  /\ response = NoResponse
  /\ \E data \in generateContentBasedRecommendations(
                   userId, movies, getUserRatings(userId), movies, limit) :
       response' = Response(userId, "content", limit, data)
  /\ UNCHANGED <<movies, ratings, locals, cache, now>>

Hybrid(userId, limit) ==
  /\ response = NoResponse
  /\ \E run \in generateHybridRecommendations(
                  userId, movies, getAllRatings, getAllUsers,
                  getUserRatings(userId), movies, limit) :
       /\ response' = Response(userId, "hybrid", limit, run.data)
       /\ locals' = [collaborativeRecs |-> run.collaborativeRecs,
                     contentBasedRecs |-> run.contentBasedRecs]
  /\ UNCHANGED <<movies, ratings, cache, now>>

\* case 'ai': the liked movies are those of the ratings marked liked; locals
\* keeps what the OpenAI collaborator did for the call
AI(userId, limit, ai) ==
  /\ response = NoResponse
  /\ LET userRatings == getUserRatings(userId)
         likedMovies == moviesOfRatings(SelectSeq(userRatings, LAMBDA r : r.liked), movies)
     IN  response' = Response(userId, "ai", limit,
                       AI_generateRecommendations(userRatings, movies, likedMovies, ai))
  /\ locals' = [completion |-> ai]
  /\ UNCHANGED <<movies, ratings, cache, now>>

Next ==
  \E userId \in Subjects, limit \in Limits :
    \/ Collaborative(userId, limit)
    \/ Content(userId, limit)
    \/ Hybrid(userId, limit)
    \/ \E ai \in AIOutcomes : AI(userId, limit, ai)

Spec == Init /\ [][Next]_vars

-----------------------------------------------------------------------------
(* Properties of the recommenders *)

Answered == response.status = "ok"

\* The subject of the answered request has no rating at all
ColdStart == Answered /\ Len(ratingsOf(ratings, response.userId)) = 0

InUnitInterval(x) == Leq(Num(0), x) /\ Leq(x, Num(1))

ScoresInUnitInterval(recs) == \A i \in 1..Len(recs) : InUnitInterval(recs[i].score)

CollaborativeAndHybridScoresInUnitInterval ==
  (Answered /\ response.algorithm \in {"collaborative", "hybrid"})
    => ScoresInUnitInterval(response.data)

\* The liked movies and the candidates of the answered request, as
\* generateContentBasedRecommendations derives them
LikedOfRequest ==
  moviesOfRatings(SelectSeq(getUserRatings(response.userId),
                            LAMBDA r : r.liked /\ r.rating >= 4), movies)

CandidatesOfRequest ==
  SelectSeq(movies, LAMBDA movie :
    \A i \in 1..Len(ratings) :
      ratings[i].userId = response.userId => ratings[i].movieId # movie.id)

\* C3: every score returned by the content recommender is a defined number
\* in [0, 1], and no candidate scores more than 1.0 against one liked item.
ContentScoresInUnitInterval ==
  (Answered /\ response.algorithm = "content")
    => /\ ScoresInUnitInterval(response.data)
       /\ \A i \in 1..Len(CandidatesOfRequest), j \in 1..Len(LikedOfRequest) :
            Leq(similarityTo(CandidatesOfRequest[i], LikedOfRequest[j]), Num(1))

\* The entries of the answered hybrid request that both merged lists hold:
\* <<position in the answer, position in collaborativeRecs, position in
\* contentBasedRecs>>
InBothLists ==
  {t \in (1..Len(response.data)) \X (1..Len(locals.collaborativeRecs))
           \X (1..Len(locals.contentBasedRecs)) :
     /\ locals.collaborativeRecs[t[2]].movie.id = response.data[t[1]].movie.id
     /\ locals.contentBasedRecs[t[3]].movie.id = response.data[t[1]].movie.id}

\* C4: an item in both lists scores collab_score*0.6 + content_score*0.4 and
\* its justification is the concatenation of both reasons.
FusionScoreIsWeightedSum ==
  (Answered /\ response.algorithm = "hybrid") =>
    \A t \in InBothLists :
      LET collab == locals.collaborativeRecs[t[2]]
          content == locals.contentBasedRecs[t[3]]
      IN  /\ response.data[t[1]].score =
               Add(Mul(collab.score, Rat(6, 10)), Mul(content.score, Rat(4, 10)))
          /\ \E sep \in {"", " ", " + ", "; ", " and "} :
               response.data[t[1]].reason = collab.reason \o sep \o content.reason

\* C5: an item in both lists scores between the smaller and the larger of
\* its two weighted contributions, and not below either of them.
FusionScoreBetweenContributions ==
  (Answered /\ response.algorithm = "hybrid") =>
    \A t \in InBothLists :
      LET a == Mul(locals.collaborativeRecs[t[2]].score, Rat(6, 10))
          b == Mul(locals.contentBasedRecs[t[3]].score, Rat(4, 10))
          lo == IF Less(a, b) THEN a ELSE b
          hi == IF Less(a, b) THEN b ELSE a
          score == response.data[t[1]].score
      IN  /\ Leq(lo, score) /\ Leq(score, hi)
          /\ Leq(a, score) /\ Leq(b, score)

\* C9: in the output of the collaborative, content and hybrid recommenders
\* two items with equal score appear in order of item identity.
TiesInIdentityOrder ==
  (Answered /\ response.algorithm \in {"collaborative", "content", "hybrid"}) =>
    \A i, j \in 1..Len(response.data) :
      (i < j /\ response.data[i].score = response.data[j].score)
        => response.data[i].movie.id < response.data[j].movie.id

\* The subject of the answered request has a rating and no neighbour: no
\* other subject's similarity is above 0.3
NoNeighbours ==
  /\ Answered
  /\ Len(ratingsOf(ratings, response.userId)) > 0
  /\ Len(findSimilarUsers(response.userId, getAllRatings, getAllUsers)) = 0

\* C11: the collaborative recommender answers a subject who has a rating
\* and no neighbour with the popularity ranking.
NoNeighboursGetsFallback ==
  (NoNeighbours /\ response.algorithm = "collaborative")
    => response.data = getPopularMovies(movies, response.limit)

\* The movies the controller hands the external-AI strategy as liked
LikedOfAIRequest ==
  moviesOfRatings(SelectSeq(getUserRatings(response.userId), LAMBDA r : r.liked), movies)

\* The OpenAI collaborator of the answered request was unconfigured, threw,
\* or answered with nothing usable (no JSON array, or an empty one)
AIUnusable ==
  /\ Answered
  /\ response.algorithm = "ai"
  /\ \/ locals.completion.kind \in {"unconfigured", "error", "garbage"}
     \/ locals.completion.kind = "json" /\ Len(locals.completion.recs) = 0

\* C12: when the AI collaborator is unconfigured, errors or answers with
\* nothing usable, the caller gets the heuristic substitute, a non-empty
\* list whenever the catalog has an item the subject has not liked.
AIUnusableGetsSubstitute ==
  AIUnusable =>
    /\ Len(LikedOfAIRequest) > 0
         => response.data = getFallbackRecommendations(LikedOfAIRequest, movies)
    /\ (\E i \in 1..Len(movies) :
          \A k \in 1..Len(LikedOfAIRequest) : LikedOfAIRequest[k].id # movies[i].id)
         => Len(response.data) > 0

\* The movies the subject of the answered request has rated
RatedByRequester ==
  {r.movieId : r \in Range(ratingsOf(ratings, response.userId))}

\* C13: for every strategy, no item of the returned list is an item the
\* requesting subject has already rated.
NoRatedItemReturned ==
  Answered =>
    \A i \in 1..Len(response.data) : response.data[i].movie.id \notin RatedByRequester

\* C14: for every strategy the returned list has at most limit entries.
AtMostLimitEntries ==
  Answered => Len(response.data) <= response.limit

\* The answer is the popularity fallback's: the subject has no rating and the
\* strategy is one that hands the request to getPopularMovies as it is
PopularityAnswer == ColdStart /\ response.algorithm \in {"collaborative", "content"}

\* The catalog items that have a quality score
WithQualityScore == SelectSeq(movies, LAMBDA movie : movie.rating # 0)

CatalogIds == {movies[i].id : i \in 1..Len(movies)}

\* The favourable ratings by which the neighbours of the requester vote
VotesOfNeighbours ==
  neighbourVotes(findSimilarUsers(response.userId, getAllRatings, getAllUsers), getAllRatings,
                 {r.movieId : r \in Range(ratingsOf(ratings, response.userId))})

\* C24: a rating that references an item absent from the catalog is skipped:
\* the Collaborative and Content recommenders answer with a list of which no
\* entry refers to a missing item.
MissingItemSkipped ==
  (Answered /\ response.algorithm \in {"collaborative", "content"}) =>
    \A i \in 1..Len(response.data) : response.data[i].movie \in Range(movies)

\* A neighbour votes for an item that is missing and for one that is not
MissingItemSkippedWitness ==
  /\ Answered /\ response.algorithm = "collaborative"
  /\ Len(ratingsOf(ratings, response.userId)) > 0
  /\ \E i \in 1..Len(VotesOfNeighbours) : VotesOfNeighbours[i].movieId \notin CatalogIds
  /\ Len(response.data) > 0

\* The requester likes an item that is missing and the content recommender
\* scores the catalog against the liked items that are not
MissingLikedItemReached ==
  /\ Answered /\ response.algorithm = "content"
  /\ \E r \in Range(ratingsOf(ratings, response.userId)) :
       r.liked /\ r.rating >= 4 /\ r.movieId \notin CatalogIds
  /\ \E r \in Range(ratingsOf(ratings, response.userId)) :
       r.liked /\ r.rating >= 4 /\ r.movieId \in CatalogIds
  /\ Len(response.data) > 0

\* The movies the content recommender scores the catalog against
LikedOfContentRequest ==
  moviesOfRatings(SelectSeq(getUserRatings(response.userId),
                            LAMBDA r : r.liked /\ r.rating >= 4), movies)

\* The similarity of a candidate to one liked movie as stated: the tags of a
\* movie are a set
StatedSimilarityTo(movie, likedMovie) ==
  LET tagPart == Mul(Rat(5, 10),
                     Div(Num(Cardinality(Range(movie.genre) \cap Range(likedMovie.genre))),
                         Num(Cardinality(Range(movie.genre) \cup Range(likedMovie.genre)))))
      creatorPart == IF movie.director # "" /\ likedMovie.director # ""
                        /\ movie.director = likedMovie.director
                     THEN Rat(20, 100) ELSE Num(0)
      yearPart == IF Abs(movie.year - likedMovie.year) <= 5 THEN Rat(15, 100)
                  ELSE IF Abs(movie.year - likedMovie.year) <= 15 THEN Rat(10, 100)
                  ELSE Num(0)
      qualityPart == IF movie.rating # 0 /\ likedMovie.rating # 0
                        /\ Abs(movie.rating - likedMovie.rating) <= 10
                     THEN Rat(15, 100) ELSE Num(0)
  IN  Add(Add(Add(tagPart, creatorPart), yearPart), qualityPart)

RECURSIVE StatedTotal(_, _)
StatedTotal(movie, likedMovies) ==
  IF Len(likedMovies) = 0 THEN Num(0)
  ELSE Add(StatedSimilarityTo(movie, Head(likedMovies)), StatedTotal(movie, Tail(likedMovies)))

\* C26: the content score of a candidate is the average over the liked items
\* of 0.5 * |common tags| / |all tags| + 0.2 for the same non-empty creator
\* + 0.15 or 0.10 for years at most 5 or 15 apart + 0.15 for quality scores
\* at most 1 apart.
ContentScoreAsStated ==
  (Answered /\ response.algorithm = "content" /\ Len(LikedOfContentRequest) > 0) =>
    \A i \in 1..Len(response.data) :
      response.data[i].score =
        Div(StatedTotal(response.data[i].movie, LikedOfContentRequest),
            Num(Len(LikedOfContentRequest)))

\* Lemma: the stated example.  One liked item {action, sci-fi}, 2010, 8.8 and
\* the candidate {sci-fi}, 2012, 8.5 of the same creator: 0.75.
ContentScoreOfExample ==
  (/\ Answered /\ response.algorithm = "content"
   /\ LikedOfContentRequest = <<MovieTable[1]>>)
    => \A i \in 1..Len(response.data) :
         response.data[i].movie = MovieTable[2] => response.data[i].score = Rat(75, 100)

-----------------------------------------------------------------------------
(* The Similarity Calculator on its own: two rating vectors, each with at   *)
(* most one rating per item, and one call of calculateUserSimilarity       *)

MaxSimItems == 3

SimRatingValues == 1..5

\* The rating vectors of subject u over the items rated, the items in
\* ascending order for u1 and in descending order for the others
SimVectors(u) ==
  LET vector(f) ==
        LET rated == {m \in 1..MaxSimItems : f[m] # 0}
            movieSeq == SelectSeq([i \in 1..MaxSimItems |-> i], LAMBDA m : m \in rated)
            asc == [i \in 1..Len(movieSeq) |->
                      Rating(u, movieSeq[i], f[movieSeq[i]], f[movieSeq[i]] > 3)]
        IN  IF u = "u1" THEN asc ELSE Reverse(asc)
  IN  {vector(f) : f \in [1..MaxSimItems -> {0} \cup SimRatingValues]}

NoSimilarity == [status |-> "none"]

SimInit ==
  /\ movies = <<>>
  /\ \E r1 \in SimVectors("u1"), r2 \in SimVectors("u2") : ratings = r1 \o r2
  /\ response = NoSimilarity
  /\ locals = NoLocals
  /\ cache = NoCache
  /\ now = 0

CalculateSimilarity(user1, user2) ==
  /\ response = NoSimilarity
  /\ response' = [status |-> "similarity", user1 |-> user1, user2 |-> user2,
                  similarity |-> calculateUserSimilarity(
                                   ratingsOf(ratings, user1), ratingsOf(ratings, user2))]
  /\ UNCHANGED <<movies, ratings, locals, cache, now>>

SimNext ==
  \/ CalculateSimilarity("u1", "u2")
  \/ CalculateSimilarity("u2", "u1")

SpecSim == SimInit /\ [][SimNext]_vars

Compared == response.status = "similarity"

\* The items both subjects of the call rated, and a subject's rating of one
SharedItems ==
  {r.movieId : r \in Range(ratingsOf(ratings, response.user1))}
    \cap {r.movieId : r \in Range(ratingsOf(ratings, response.user2))}

StrengthOf(u, m) ==
  (CHOOSE r \in Range(ratings) : r.userId = u /\ r.movieId = m).rating

ZeroVariance(u) == \A m1, m2 \in SharedItems : StrengthOf(u, m1) = StrengthOf(u, m2)

\* Two similarities are the same number
SameSimilarity(a, b) ==
  /\ (a.densq = 0) = (b.densq = 0)
  /\ a.num * b.num >= 0
  /\ (a.num = 0) = (b.num = 0)
  /\ a.num * a.num * b.densq = b.num * b.num * a.densq

\* C6: similarity(a, b) = similarity(b, a).
SimilaritySymmetric ==
  Compared =>
    SameSimilarity(response.similarity,
                   calculateUserSimilarity(ratingsOf(ratings, response.user2),
                                           ratingsOf(ratings, response.user1)))

\* C6 witness: a similarity other than 0 over three shared items that the
\* two subjects rated differently
SimilaritySymmetricWitness ==
  /\ Compared
  /\ Cardinality(SharedItems) = 3
  /\ response.similarity.num # 0
  /\ \E m \in SharedItems : StrengthOf(response.user1, m) # StrengthOf(response.user2, m)

\* C7: similarity is exactly 0, and not NaN, when the subjects share fewer
\* than 2 items or either subject's ratings of the shared items do not vary.
SimilarityZeroWithoutSignal ==
  (Compared /\ (\/ Cardinality(SharedItems) < 2
                \/ ZeroVariance(response.user1)
                \/ ZeroVariance(response.user2)))
    => (response.similarity.num = 0 /\ response.similarity.densq > 0)

\* C7 witness: the spec's example, U1 = [5, 5] against U2 = [5, 4]
SimilarityZeroWitness ==
  /\ Compared
  /\ response.user1 = "u1"
  /\ SharedItems = {1, 2}
  /\ StrengthOf("u1", 1) = 5 /\ StrengthOf("u1", 2) = 5
  /\ StrengthOf("u2", 1) = 5 /\ StrengthOf("u2", 2) = 4
  /\ response.similarity.num = 0

\* In exact arithmetic the similarity is a number in [-1, 1]: the squared
\* numerator does not exceed the product of the two variance terms
ExactSimilarityInRange ==
  Compared =>
    /\ response.similarity.densq > 0
    /\ response.similarity.num * response.similarity.num <= response.similarity.densq

-----------------------------------------------------------------------------
(* Natural numbers of any size.  The significands of JavaScript numbers have
   53 bits and their products 106, more than the integers of the model
   checker hold, so a natural number is a sequence of limbs below LimbBase,
   least significant first, without leading zero limbs; 0 is <<>>. *)

LimbBits == 15

LimbBase == 2^LimbBits

RECURSIVE BNorm(_)
BNorm(a) == IF Len(a) > 0 /\ a[Len(a)] = 0 THEN BNorm(SubSeq(a, 1, Len(a) - 1)) ELSE a

RECURSIVE BFromInt(_)
BFromInt(k) == IF k = 0 THEN <<>> ELSE <<k % LimbBase>> \o BFromInt(k \div LimbBase)

\* a + b + c for a carry c
RECURSIVE BAddC(_, _, _)
BAddC(a, b, c) ==
  IF Len(a) = 0 /\ Len(b) = 0 THEN (IF c = 0 THEN <<>> ELSE <<c>>)
  ELSE LET x == IF Len(a) = 0 THEN 0 ELSE a[1]
           y == IF Len(b) = 0 THEN 0 ELSE b[1]
           sum == x + y + c
       IN  <<sum % LimbBase>> \o BAddC(IF Len(a) = 0 THEN a ELSE Tail(a),
                                       IF Len(b) = 0 THEN b ELSE Tail(b),
                                       sum \div LimbBase)

BAdd(a, b) == BAddC(a, b, 0)

\* a - b - borrow, for a >= b + borrow
RECURSIVE BSubC(_, _, _)
BSubC(a, b, borrow) ==
  IF Len(a) = 0 THEN <<>>
  ELSE LET y == IF Len(b) = 0 THEN 0 ELSE b[1]
           d == a[1] - y - borrow
       IN  <<IF d < 0 THEN d + LimbBase ELSE d>>
             \o BSubC(Tail(a), IF Len(b) = 0 THEN b ELSE Tail(b), IF d < 0 THEN 1 ELSE 0)

BSub(a, b) == BNorm(BSubC(a, b, 0))

BLess(a, b) ==
  IF Len(a) # Len(b) THEN Len(a) < Len(b)
  ELSE \E i \in 1..Len(a) : a[i] < b[i] /\ \A j \in (i + 1)..Len(a) : a[j] = b[j]

BOdd(a) == Len(a) > 0 /\ a[1] % 2 = 1

\* a * d + c for a limb d and a carry c
RECURSIVE BMulLimbC(_, _, _)
BMulLimbC(a, d, c) ==
  IF Len(a) = 0 THEN (IF c = 0 THEN <<>> ELSE <<c>>)
  ELSE LET p == a[1] * d + c
       IN  <<p % LimbBase>> \o BMulLimbC(Tail(a), d, p \div LimbBase)

RECURSIVE BMul(_, _)
BMul(a, b) ==
  IF Len(a) = 0 \/ Len(b) = 0 THEN <<>>
  ELSE LET rest == BMul(a, Tail(b))
       IN  BAdd(BMulLimbC(a, b[1], 0), IF Len(rest) = 0 THEN rest ELSE <<0>> \o rest)

\* a * 2^k
BShl(a, k) ==
  IF Len(a) = 0 THEN a
  ELSE [i \in 1..(k \div LimbBits) |-> 0] \o BMulLimbC(a, 2^(k % LimbBits), 0)

\* a \div 2^k
BShr(a, k) ==
  LET drop == k \div LimbBits
      s == k % LimbBits
      x == IF drop >= Len(a) THEN <<>> ELSE SubSeq(a, drop + 1, Len(a))
  IN  BNorm([i \in 1..Len(x) |->
               (x[i] \div 2^s)
                 + (IF i < Len(x) THEN (x[i + 1] % 2^s) * 2^(LimbBits - s) ELSE 0)])

\* The number of bits of a
BBitLen(a) ==
  IF Len(a) = 0 THEN 0
  ELSE (Len(a) - 1) * LimbBits
         + (CHOOSE n \in 1..LimbBits : 2^(n - 1) <= a[Len(a)] /\ a[Len(a)] < 2^n)

BBit(a, i) ==
  LET j == (i \div LimbBits) + 1
  IN  IF j > Len(a) THEN 0 ELSE (a[j] \div 2^(i % LimbBits)) % 2

\* Long division, one bit of a at a time, bits i down to stop.  (The tests
\* on Len that are always TRUE have the model checker evaluate the values
\* of a step before it takes the next; the steps are grouped by limb to
\* bound the depth of the recursion.)
RECURSIVE BDivStep(_, _, _, _, _, _)
BDivStep(a, b, i, stop, q, r) ==
  IF i < stop THEN [q |-> q, r |-> r]
  ELSE LET r2 == BAddC(r, r, BBit(a, i))
       IN  IF Len(q) >= 0 /\ BLess(r2, b)
           THEN BDivStep(a, b, i - 1, stop, BAdd(q, q), r2)
           ELSE BDivStep(a, b, i - 1, stop, BAddC(q, q, 1), BSub(r2, b))

RECURSIVE BDivLimbs(_, _, _, _, _)
BDivLimbs(a, b, j, q, r) ==
  IF j < 1 THEN [q |-> q, r |-> r]
  ELSE LET s == BDivStep(a, b, j * LimbBits - 1, (j - 1) * LimbBits, q, r)
       IN  IF Len(s.q) >= 0 /\ Len(s.r) >= 0 THEN BDivLimbs(a, b, j - 1, s.q, s.r) ELSE s

\* Quotient and remainder of a by b > 0
BDivMod(a, b) == BDivLimbs(a, b, Len(a), <<>>, <<>>)

\* Square root, one bit of the root at a time, count bits; bit is a power
\* of 4
RECURSIVE BSqrtStep(_, _, _, _)
BSqrtStep(n, res, bit, count) ==
  IF count = 0 \/ Len(bit) = 0 THEN [n |-> n, res |-> res, bit |-> bit]
  ELSE LET t == BAdd(res, bit)
       IN  IF BLess(n, t)
           THEN BSqrtStep(n, BShr(res, 1), BShr(bit, 2), count - 1)
           ELSE BSqrtStep(BSub(n, t), BAdd(BShr(res, 1), bit), BShr(bit, 2), count - 1)

RECURSIVE BSqrtLimbs(_, _, _)
BSqrtLimbs(n, res, bit) ==
  IF Len(bit) = 0 THEN [root |-> res, rem |-> n]
  ELSE LET s == BSqrtStep(n, res, bit, LimbBits)
       IN  IF Len(s.n) >= 0 /\ Len(s.res) >= 0 /\ Len(s.bit) >= 0
           THEN BSqrtLimbs(s.n, s.res, s.bit)
           ELSE [root |-> res, rem |-> n]

\* The integer square root of a > 0 and what is left of a
BSqrt(a) == BSqrtLimbs(a, <<>>, BShl(<<1>>, 2 * ((BBitLen(a) - 1) \div 2)))

-----------------------------------------------------------------------------
(* IEEE 754 binary64, the arithmetic of JavaScript's number type, rounding to
   nearest with ties to even.  A number is sign * m * 2^e with m = 0 or m of
   exactly Precision bits.  The values of calculateUserSimilarity stay far
   from overflow and underflow, which are left out. *)

Precision == 53

FZero == [sign |-> 1, m |-> <<>>, e |-> 0]

FNaN == [sign |-> 0, m |-> <<>>, e |-> 0]

FIsNaN(x) == x.sign = 0

\* The number nearest to sign * (mag + f) * 2^e, where 0 < f < 1 if sticky
\* and f = 0 otherwise; mag has more than Precision bits whenever sticky
Round(sign, mag, e, sticky) ==
  LET len == BBitLen(mag)
      k == len - Precision
      q == BShr(mag, k)
      rem == BSub(mag, BShl(q, k))
      half == BShl(<<1>>, k - 1)
      up == BLess(half, rem) \/ (rem = half /\ (sticky \/ BOdd(q)))
      r == IF up THEN BAddC(q, <<>>, 1) ELSE q
  IN  IF len = 0 THEN FZero
      ELSE IF len <= Precision
      THEN [sign |-> sign, m |-> BShl(mag, Precision - len), e |-> e - (Precision - len)]
      ELSE IF BBitLen(r) > Precision
      THEN [sign |-> sign, m |-> BShr(r, 1), e |-> e + k + 1]
      ELSE [sign |-> sign, m |-> r, e |-> e + k]

\* An integer below 2^31 as a number: exact
FromInt(k) == Round(IF k < 0 THEN -1 ELSE 1, BFromInt(Abs(k)), 0, FALSE)

FAdd(x, y) ==
  LET e0 == IF x.e < y.e THEN x.e ELSE y.e
      a == BShl(x.m, x.e - e0)
      b == BShl(y.m, y.e - e0)
  IN  IF FIsNaN(x) \/ FIsNaN(y) THEN FNaN
      ELSE IF Len(x.m) = 0 THEN y
      ELSE IF Len(y.m) = 0 THEN x
      ELSE IF x.sign = y.sign THEN Round(x.sign, BAdd(a, b), e0, FALSE)
      ELSE IF a = b THEN FZero
      ELSE IF BLess(a, b) THEN Round(y.sign, BSub(b, a), e0, FALSE)
      ELSE Round(x.sign, BSub(a, b), e0, FALSE)

FSub(x, y) == FAdd(x, [y EXCEPT !.sign = -y.sign])

FMul(x, y) ==
  IF FIsNaN(x) \/ FIsNaN(y) THEN FNaN
  ELSE Round(x.sign * y.sign, BMul(x.m, y.m), x.e + y.e, FALSE)

\* x / y; 0 / 0 is NaN, and no other division by 0 is made
FDiv(x, y) ==
  LET scale == Precision + 3
      d == BDivMod(BShl(x.m, scale), y.m)
  IN  IF FIsNaN(x) \/ FIsNaN(y) \/ Len(y.m) = 0 THEN FNaN
      ELSE IF Len(x.m) = 0 THEN FZero
      ELSE Round(x.sign * y.sign, d.q, x.e - scale - y.e, Len(d.r) > 0)

\* Math.sqrt(x); NaN for x < 0
FSqrt(x) ==
  LET scale == IF x.e % 2 = 0 THEN Precision + 5 ELSE Precision + 6
      s == BSqrt(BShl(x.m, scale))
  IN  IF FIsNaN(x) THEN FNaN
      ELSE IF Len(x.m) = 0 THEN FZero
      ELSE IF x.sign < 0 THEN FNaN
      ELSE Round(1, s.root, (x.e - scale) \div 2, Len(s.rem) > 0)

\* |x| <= |y|
FMagLeq(x, y) ==
  LET e0 == IF x.e < y.e THEN x.e ELSE y.e
  IN  \/ Len(x.m) = 0
      \/ Len(y.m) > 0 /\ ~BLess(BShl(y.m, y.e - e0), BShl(x.m, x.e - e0))

\* calculateUserSimilarity in the arithmetic it runs in.  The sums are sums
\* and products of integers below 2^53 and so exact.
calculateUserSimilarity64(user1Ratings, user2Ratings) ==
  LET commonMovies == commonMoviesOf(user1Ratings, user2Ratings)
      n == Len(commonMovies)
      user1CommonRatings == [i \in 1..n |-> commonMovies[i].rating]
      user2CommonRatings ==
        [i \in 1..n |-> FindRating(user2Ratings, commonMovies[i].movieId).rating]
      sum1 == SumSeq(user1CommonRatings)
      sum2 == SumSeq(user2CommonRatings)
      sum1Sq == SumSeq([i \in 1..n |-> user1CommonRatings[i] * user1CommonRatings[i]])
      sum2Sq == SumSeq([i \in 1..n |-> user2CommonRatings[i] * user2CommonRatings[i]])
      pSum == SumSeq([i \in 1..n |-> user1CommonRatings[i] * user2CommonRatings[i]])
      num == FSub(FromInt(pSum), FDiv(FromInt(sum1 * sum2), FromInt(n)))
      den == FSqrt(FMul(FSub(FromInt(sum1Sq), FDiv(FromInt(sum1 * sum1), FromInt(n))),
                        FSub(FromInt(sum2Sq), FDiv(FromInt(sum2 * sum2), FromInt(n)))))
  IN  IF n < 2 THEN FZero
      ELSE IF den = FZero THEN FZero
      ELSE FDiv(num, den)

\* The rating vectors of subject u over items 1..MaxSimItems, every item
\* rated; u1's strengths ascend with the item (Pearson's sums do not depend
\* on the order of the items, so any pair of vectors is one of these with
\* its items renumbered)
FloatVectors(u) ==
  {[m \in 1..MaxSimItems |-> Rating(u, m, f[m], f[m] > 3)] :
     f \in {g \in [1..MaxSimItems -> SimRatingValues] :
              u = "u1" => \A m \in 1..(MaxSimItems - 1) : g[m] <= g[m + 1]}}

FloatInit ==
  /\ movies = <<>>
  /\ \E r1 \in FloatVectors("u1"), r2 \in FloatVectors("u2") : ratings = r1 \o r2
  /\ response = NoSimilarity
  /\ locals = NoLocals
  /\ cache = NoCache
  /\ now = 0

CalculateSimilarity64(user1, user2) ==
  /\ response = NoSimilarity
  /\ response' = [status |-> "similarity", user1 |-> user1, user2 |-> user2,
                  similarity |-> calculateUserSimilarity64(
                                   ratingsOf(ratings, user1), ratingsOf(ratings, user2))]
  /\ UNCHANGED <<movies, ratings, locals, cache, now>>

FloatNext == CalculateSimilarity64("u1", "u2")

SpecFloat == FloatInit /\ [][FloatNext]_vars

\* C8: for rating vectors with strengths in 1..5, the value similarity
\* returns is a number in [-1, 1].
SimilarityValueInRange ==
  Compared => (~FIsNaN(response.similarity) /\ FMagLeq(response.similarity, FromInt(1)))

\* similarity(a, b) and similarity(b, a) are the same number in binary64
SimilaritySymmetric64 ==
  Compared =>
    response.similarity =
      calculateUserSimilarity64(ratingsOf(ratings, response.user2),
                                ratingsOf(ratings, response.user1))

\* A subject whose ratings of the shared items do not vary has similarity
\* exactly 0 in binary64
SimilarityZeroWithoutSignal64 ==
  (Compared /\ (ZeroVariance(response.user1) \/ ZeroVariance(response.user2)))
    => response.similarity = FZero

-----------------------------------------------------------------------------
(* The Fusion recommender called twice with the same arrays *)

\* getPopularMovies sorting allMovies itself, without the copy filter makes:
\* Array.prototype.sort sorts in place, and the caller's array is reordered
catalogAfterCall_sortedInPlace(allMovies) ==
  StableSort(allMovies, [i, j \in 1..Len(allMovies) |->
                           allMovies[j].rating - allMovies[i].rating < 0])

\* The caller's allMovies after a call: every sort of the engine is on an
\* array that filter, Array.from or a literal has just made, and the
\* arrays passed in are only read
catalogAfterCall(allMovies) == allMovies

FirstCall(userId, limit) ==
  /\ response = NoResponse
  /\ \E run \in generateHybridRecommendations(
                  userId, movies, getAllRatings, getAllUsers,
                  getUserRatings(userId), movies, limit) :
       /\ response' = [status |-> "first", userId |-> userId, limit |-> limit,
                       allMovies |-> movies, allRatings |-> ratings, data |-> run.data]
       /\ locals' = [collaborativeRecs |-> run.collaborativeRecs,
                     contentBasedRecs |-> run.contentBasedRecs]
  /\ movies' = catalogAfterCall(movies)
  /\ UNCHANGED <<ratings, cache, now>>

\* The second call, for the same subject and limit.  Where a sort's order
\* is implementation-defined the engine still is one function of its
\* input: on the arrays of the first call it gives the first call's lists.
SecondCall ==
  /\ response.status = "first"
  /\ \E run \in generateHybridRecommendations(
                  response.userId, movies, getAllRatings, getAllUsers,
                  getUserRatings(response.userId), movies, response.limit) :
       /\ (movies = response.allMovies /\ ratings = response.allRatings)
            => /\ run.data = response.data
               /\ run.collaborativeRecs = locals.collaborativeRecs
               /\ run.contentBasedRecs = locals.contentBasedRecs
       /\ response' = [status |-> "second", userId |-> response.userId,
                       limit |-> response.limit, first |-> response.data, data |-> run.data]
  /\ UNCHANGED <<movies, ratings, locals, cache, now>>

TwiceNext ==
  \/ \E userId \in Subjects, limit \in Limits : FirstCall(userId, limit)
  \/ SecondCall

SpecTwice == Init /\ [][TwiceNext]_vars

-----------------------------------------------------------------------------
(* GET /api/recommendations: validateQuery, then getRecommendations, for an
   authenticated subject *)

Undefined == [type |-> "undefined"]

NumberValue(n) == [type |-> "number", value |-> n]

StringValue(str) == [type |-> "string", value |-> str]

\* The values a query string gives each parameter
QueryValues ==
  [algorithm |-> {"hybrid", "collaborative", "content", "ai", "popular"},
   limit |-> {"0", "-1", "2", "abc"},
   minYear |-> {"2005"},
   maxYear |-> {"2011"}]

\* req.query: the parameters present, each with its string
Queries ==
  UNION {{q \in [K -> UNION {QueryValues[k] : k \in K}] : \A k \in K : q[k] \in QueryValues[k]} :
           K \in SUBSET DOMAIN QueryValues}

\* Number(value) for the strings of QueryValues that are numerals; for the
\* others Number(value) is NaN
Numerals == ("0" :> 0) @@ ("-1" :> -1) @@ ("2" :> 2) @@ ("2005" :> 2005) @@ ("2011" :> 2011)

\* validateQuery's conversion of one query value
processValue(value) ==
  IF value \in DOMAIN Numerals THEN NumberValue(Numerals[value]) ELSE StringValue(value)

processQuery(query) ==
  [key \in DOMAIN QueryValues |->
     IF key \in DOMAIN query THEN processValue(query[key]) ELSE Undefined]

\* new Date().getFullYear()
CurrentYear == 2025

\* limit: z.number().int().min(1).max(50), with the lower limit written min(0)
limitSchema_min0(v) == v.type = "undefined" \/ (v.type = "number" /\ v.value >= 0 /\ v.value <= 50)

\* limit: z.number().int().min(1).max(50).default(10).optional()
limitSchema(v) == v.type = "undefined" \/ (v.type = "number" /\ v.value >= 1 /\ v.value <= 50)

\* algorithm: z.enum([...]).optional()
algorithmSchema(v) ==
  v.type = "undefined"
    \/ (v.type = "string" /\ v.value \in {"hybrid", "collaborative", "content", "ai"})

minYearSchema(v) == v.type = "undefined" \/ (v.type = "number" /\ v.value >= 1800)

maxYearSchema(v) == v.type = "undefined" \/ (v.type = "number" /\ v.value <= CurrentYear + 5)

\* schema.parse(processedQuery) does not throw
schemaAccepts(processedQuery) ==
  /\ limitSchema(processedQuery.limit)
  /\ algorithmSchema(processedQuery.algorithm)
  /\ minYearSchema(processedQuery.minYear)
  /\ maxYearSchema(processedQuery.maxYear)

\* The snapshots the requests are checked on: one subject's ratings and a
\* catalog of at most two movies
RequestCatalogs == {c \in Catalogs : Len(c) <= 2}

RequestInit ==
  /\ movies \in RequestCatalogs
  /\ ratings \in RatingVectors("u1")
  /\ response = NoResponse
  /\ \E query \in Queries :
       locals = [pc |-> "validateQuery", raw |-> query, query |-> processQuery(query),
                 invoked |-> <<>>]
  /\ cache = NoCache
  /\ now = 0

\* res.status(400).json({success: false, error})
Rejected(error) == [status |-> "rejected", code |-> 400, success |-> FALSE, error |-> error]

ValidateQuery ==
  /\ locals.pc = "validateQuery"
  /\ IF schemaAccepts(locals.query)
     THEN /\ locals' = [locals EXCEPT !.pc = "getRecommendations"]
          /\ UNCHANGED response
     ELSE /\ locals' = [locals EXCEPT !.pc = "done"]
          /\ response' = Rejected("Query validation failed")
  /\ UNCHANGED <<movies, ratings, cache, now>>

\* const { algorithm = 'hybrid', limit = 10 } = req.query
algorithmOf(query) == IF query.algorithm = Undefined THEN "hybrid" ELSE query.algorithm.value

limitOf(query) == IF query.limit = Undefined THEN 10 ELSE query.limit.value

\* The lists the controller's switch can obtain, and the recommender it calls
recommendationsFor(userId, algorithm, limit, ai) ==
  CASE algorithm = "collaborative" ->
         generateCollaborativeRecommendations(userId, movies, getAllRatings, getAllUsers, limit)
    [] algorithm = "content" ->
         generateContentBasedRecommendations(userId, movies, getUserRatings(userId), movies, limit)
    [] algorithm = "ai" ->
         {AI_generateRecommendations(
            getUserRatings(userId), movies,
            moviesOfRatings(SelectSeq(getUserRatings(userId), LAMBDA r : r.liked), movies), ai)}
    [] OTHER ->
         {run.data : run \in generateHybridRecommendations(
                                userId, movies, getAllRatings, getAllUsers,
                                getUserRatings(userId), movies, limit)}

recommenderFor(algorithm) ==
  CASE algorithm = "collaborative" -> "generateCollaborativeRecommendations"
    [] algorithm = "content" -> "generateContentBasedRecommendations"
    [] algorithm = "ai" -> "AIService.generateRecommendations"
    [] OTHER -> "generateHybridRecommendations"

GetRecommendations(userId) ==
  /\ locals.pc = "getRecommendations"
  /\ \E ai \in AIOutcomes :
       \E data \in recommendationsFor(userId, algorithmOf(locals.query), limitOf(locals.query), ai) :
         response' = Response(userId, algorithmOf(locals.query), limitOf(locals.query), data)
  /\ locals' = [locals EXCEPT !.pc = "done",
                              !.invoked = Append(@, recommenderFor(algorithmOf(locals.query)))]
  /\ UNCHANGED <<movies, ratings, cache, now>>

RequestNext ==
  \/ ValidateQuery
  \/ \E userId \in Subjects : GetRecommendations(userId)

SpecRequest == RequestInit /\ [][RequestNext]_vars

\* C15: when the caller gives minYear and/or maxYear, every movie of the
\* returned list has its release year in the requested range.
YearFilterApplied ==
  (locals.pc = "done" /\ response.status = "ok") =>
    \A i \in 1..Len(response.data) :
      /\ locals.query.minYear # Undefined
           => response.data[i].movie.year >= locals.query.minYear.value
      /\ locals.query.maxYear # Undefined
           => response.data[i].movie.year <= locals.query.maxYear.value

\* The request names an unknown strategy or a limit that is not positive
InvalidRequest ==
  \/ "algorithm" \in DOMAIN locals.raw
       /\ locals.raw.algorithm \notin {"hybrid", "collaborative", "content", "ai"}
  \/ "limit" \in DOMAIN locals.raw
       /\ locals.raw.limit \in DOMAIN Numerals
       /\ Numerals[locals.raw.limit] <= 0

\* C20: a request with an unknown strategy name or a non-positive limit is
\* rejected with status 400, and no recommender is invoked for it.
InvalidRequestRejected ==
  InvalidRequest =>
    /\ locals.invoked = <<>>
    /\ locals.pc # "getRecommendations"
    /\ locals.pc = "done" => (response.status = "rejected" /\ response.code = 400)

\* C20 witness: a request with limit=0 and a known strategy, rejected
InvalidRequestRejectedWitness ==
  /\ locals.pc = "done"
  /\ "limit" \in DOMAIN locals.raw /\ locals.raw.limit = "0"
  /\ "algorithm" \in DOMAIN locals.raw /\ locals.raw.algorithm = "content"
  /\ response.status = "rejected"

-----------------------------------------------------------------------------
(* Strings of cache keys.  A string is the sequence of its hyphens and of
   the hyphen-free words between them, so that 'a-b' is <<"a", "-", "b">>;
   every prefix the cache service tests for ends with a hyphen, and for
   such a prefix startsWith on the words is startsWith on the characters. *)

startsWith(str, prefix) ==
  Len(prefix) <= Len(str) /\ SubSeq(str, 1, Len(prefix)) = prefix

\* String(id) for a movie identity of the model, one character
movieIdString(movieId) == ToString(movieId)

\* str.charCodeAt(i) for the characters of identity lists
charCode == ("," :> 44) @@ ("1" :> 49) @@ ("2" :> 50) @@ ("3" :> 51)

\* likedMovieIds.sort(): by UTF-16 code units; the identities of the model
\* have one character each
sortIds(likedMovieIds) ==
  StableSort(likedMovieIds, [i, j \in 1..Len(likedMovieIds) |->
                               charCode[likedMovieIds[i]] < charCode[likedMovieIds[j]]])

\* ids.join(','), as the sequence of its characters
RECURSIVE joinChars(_)
joinChars(ids) ==
  IF Len(ids) = 0 THEN <<>>
  ELSE IF Len(ids) = 1 THEN <<ids[1]>>
  ELSE <<ids[1], ",">> \o joinChars(Tail(ids))

\* hashString.  The strings hashed in the model are short enough for
\* (hash << 5) - hash + char to stay below 2^31, where hash & hash leaves it
\* as it is.
RECURSIVE hashChars(_, _)
hashChars(chars, hash) ==
  IF Len(chars) = 0 THEN hash
  ELSE hashChars(Tail(chars), (hash * 32 - hash) + charCode[Head(chars)])

hashString(chars) == ToString(Abs(hashChars(chars, 0)))

-----------------------------------------------------------------------------
(* node-cache, with stdTTL 600 and useClones false: data[key] = {v, t}, an
   entry expired once t < Date.now(); times are in seconds *)

NodeCache_set(data, key, v, ttl) ==
  [k \in DOMAIN data \cup {key} |-> IF k = key THEN [v |-> v, t |-> now + ttl] ELSE data[k]]

NodeCache_del(data, key) == [k \in DOMAIN data \ {key} |-> data[k]]

\* get(key) finds a live entry
NodeCache_has(data, key) == key \in DOMAIN data /\ ~(data[key].t < now)

\* What get(key) leaves of the data: an expired entry is deleted
NodeCache_afterGet(data, key) ==
  IF key \in DOMAIN data /\ data[key].t < now THEN NodeCache_del(data, key) ELSE data

\* keys().forEach(key => { if (key.startsWith(prefix)) del(key) })
delByPrefix(data, prefix) ==
  [k \in {key \in DOMAIN data : ~startsWith(key, prefix)} |-> data[k]]

-----------------------------------------------------------------------------
(* CacheService *)

recommendationsKey(userId, algorithm) ==
  <<"recommendations", "-">> \o userId \o <<"-", algorithm>>

aiKey(userId, likedMovieIds) ==
  <<"ai", "-">> \o userId \o <<"-", hashString(joinChars(sortIds(likedMovieIds)))>>

genreKey(genre) == <<"genre", "-", genre>>

movieKey(movieId) == <<"movie", "-", movieIdString(movieId)>>

setRecommendations(data, userId, algorithm, recommendations) ==
  NodeCache_set(data, recommendationsKey(userId, algorithm), recommendations, 1800)

setAIResponse(data, userId, likedMovieIds, recommendations) ==
  NodeCache_set(data, aiKey(userId, likedMovieIds), recommendations, 3600)

setGenreRecommendations(data, genre, recommendations) ==
  NodeCache_set(data, genreKey(genre), recommendations, 3600)

invalidateUserRecommendations(data, userId) ==
  delByPrefix(data, <<"recommendations", "-">> \o userId \o <<"-">>)

invalidateAllRecommendations(data) == delByPrefix(data, <<"recommendations", "-">>)

invalidateMovie(data, movieId) ==
  NodeCache_del(NodeCache_del(data, movieKey(movieId)), <<"all", "-", "movies">>)

invalidateAllMovies(data) ==
  delByPrefix(NodeCache_del(data, <<"all", "-", "movies">>), <<"movie", "-">>)

onMovieUpdate(data, movieId) == invalidateAllRecommendations(invalidateMovie(data, movieId))

onMovieCreate(data) == invalidateAllRecommendations(invalidateAllMovies(data))

onMovieDelete(data, movieId) == invalidateAllRecommendations(invalidateMovie(data, movieId))

onUserRating(data, userId) == invalidateUserRecommendations(data, userId)

-----------------------------------------------------------------------------
(* The cache service in use: rankings are stored and looked up, the storage
   layer changes ratings and raises its notifications, the clock advances,
   and the controller answers requests. *)

MaxCacheSteps == 4

\* Seconds by which the clock advances in one step
ClockStep == 1000

CacheUsers == {<<"a">>, <<"a", "-", "b">>}

CacheAlgorithms == {"hybrid", "content"}

CacheGenres == {"action"}

CacheMovieIds == {1, 2}

CacheRatingValues == {1, 5}

\* The identities of the movies the subject likes, as the controller's loop
\* over userRatings.filter(r => r.liked) collects them
likedMovieIdsOf(userId) ==
  LET liked == SelectSeq(ratingsOf(ratings, userId), LAMBDA r : r.liked)
  IN  [i \in 1..Len(liked) |-> movieIdString(liked[i].movieId)]

\* The ranking the recommender computes for a subject under a strategy, named
\* by what it is computed from: recommenders are functions of their inputs
rankingFor(userId, algorithm) ==
  [userId |-> userId, algorithm |-> algorithm, likedMovieIds |-> Range(likedMovieIdsOf(userId))]

genreRankingFor(genre) == [genre |-> genre]

NoStore == [valid |-> FALSE]

Stored(key, v, ttl) ==
  [valid |-> TRUE, key |-> key, v |-> v, at |-> now, ttl |-> ttl, step |-> locals.steps + 1]


CacheInit ==
  /\ movies = <<MovieTable[1], MovieTable[2]>>
  /\ ratings = <<>>
  /\ response = NoResponse
  /\ locals = [steps |-> 0, last |-> NoStore]
  /\ cache = NoCache
  /\ now = 0

\* What a lookup answers
Lookup(status, key) ==
  [status |-> status, key |-> key, hit |-> NodeCache_has(cache, key),
   data |-> IF NodeCache_has(cache, key) THEN cache[key].v ELSE Undefined,
   at |-> now, step |-> locals.steps + 1]

SetRecommendations(userId, algorithm) ==
  /\ locals.steps < MaxCacheSteps
  /\ cache' = setRecommendations(cache, userId, algorithm, rankingFor(userId, algorithm))
  /\ response' = [status |-> "setRecommendations", userId |-> userId, algorithm |-> algorithm]
  /\ locals' = [steps |-> locals.steps + 1,
                last |-> Stored(recommendationsKey(userId, algorithm), rankingFor(userId, algorithm), 1800)]
  /\ UNCHANGED <<movies, ratings, now>>

SetAIResponse(userId) ==
  /\ locals.steps < MaxCacheSteps
  /\ cache' = setAIResponse(cache, userId, likedMovieIdsOf(userId), rankingFor(userId, "ai"))
  /\ response' = [status |-> "setAIResponse", userId |-> userId]
  /\ locals' = [steps |-> locals.steps + 1,
                last |-> Stored(aiKey(userId, likedMovieIdsOf(userId)), rankingFor(userId, "ai"), 3600)]
  /\ UNCHANGED <<movies, ratings, now>>

SetGenreRecommendations(genre) ==
  /\ locals.steps < MaxCacheSteps
  /\ cache' = setGenreRecommendations(cache, genre, genreRankingFor(genre))
  /\ response' = [status |-> "setGenreRecommendations", genre |-> genre]
  /\ locals' = [steps |-> locals.steps + 1,
                last |-> Stored(genreKey(genre), genreRankingFor(genre), 3600)]
  /\ UNCHANGED <<movies, ratings, now>>

SetMovie(i) ==
  /\ locals.steps < MaxCacheSteps
  /\ cache' = NodeCache_set(cache, movieKey(movies[i].id), movies[i], 600)
  /\ response' = [status |-> "setMovie", movieId |-> movies[i].id]
  /\ locals' = [steps |-> locals.steps + 1,
                last |-> Stored(movieKey(movies[i].id), movies[i], 600)]
  /\ UNCHANGED <<movies, ratings, now>>

GetRecommendations_cached(userId, algorithm) ==
  /\ locals.steps < MaxCacheSteps
  /\ response' = Lookup("getRecommendations", recommendationsKey(userId, algorithm))
                   @@ [userId |-> userId, algorithm |-> algorithm]
  /\ cache' = NodeCache_afterGet(cache, recommendationsKey(userId, algorithm))
  /\ locals' = [locals EXCEPT !.steps = @ + 1]
  /\ UNCHANGED <<movies, ratings, now>>

GetAIResponse(userId) ==
  /\ locals.steps < MaxCacheSteps
  /\ response' = Lookup("getAIResponse", aiKey(userId, likedMovieIdsOf(userId)))
                   @@ [userId |-> userId, algorithm |-> "ai"]
  /\ cache' = NodeCache_afterGet(cache, aiKey(userId, likedMovieIdsOf(userId)))
  /\ locals' = [locals EXCEPT !.steps = @ + 1]
  /\ UNCHANGED <<movies, ratings, now>>

GetGenreRecommendations(genre) ==
  /\ locals.steps < MaxCacheSteps
  /\ response' = Lookup("getGenreRecommendations", genreKey(genre))
  /\ cache' = NodeCache_afterGet(cache, genreKey(genre))
  /\ locals' = [locals EXCEPT !.steps = @ + 1]
  /\ UNCHANGED <<movies, ratings, now>>

\* A notification: the entries it found are kept in the answer
Notified(status, subject) == [status |-> status, subject |-> subject, before |-> cache]

OnMovieCreate ==
  /\ locals.steps < MaxCacheSteps
  /\ cache' = onMovieCreate(cache)
  /\ response' = Notified("onMovieCreate", <<>>)
  /\ locals' = [steps |-> locals.steps + 1, last |-> NoStore]
  /\ UNCHANGED <<movies, ratings, now>>

OnMovieUpdate(movieId) ==
  /\ locals.steps < MaxCacheSteps
  /\ cache' = onMovieUpdate(cache, movieId)
  /\ response' = Notified("onMovieUpdate", <<movieIdString(movieId)>>)
  /\ locals' = [steps |-> locals.steps + 1, last |-> NoStore]
  /\ UNCHANGED <<movies, ratings, now>>

OnMovieDelete(movieId) ==
  /\ locals.steps < MaxCacheSteps
  /\ cache' = onMovieDelete(cache, movieId)
  /\ response' = Notified("onMovieDelete", <<movieIdString(movieId)>>)
  /\ locals' = [steps |-> locals.steps + 1, last |-> NoStore]
  /\ UNCHANGED <<movies, ratings, now>>

OnUserRating(userId) ==
  /\ locals.steps < MaxCacheSteps
  /\ cache' = onUserRating(cache, userId)
  /\ response' = Notified("onUserRating", userId)
  /\ locals' = [steps |-> locals.steps + 1, last |-> NoStore]
  /\ UNCHANGED <<movies, ratings, now>>

\* rateMovie of the rating controller, db.createOrUpdateRating: the rating of
\* the subject for the movie is created or updated; no notification is raised
createOrUpdateRating(allRatings, ratingData) ==
  IF \E i \in 1..Len(allRatings) :
       allRatings[i].userId = ratingData.userId /\ allRatings[i].movieId = ratingData.movieId
  THEN [i \in 1..Len(allRatings) |->
          IF allRatings[i].userId = ratingData.userId /\ allRatings[i].movieId = ratingData.movieId
          THEN ratingData ELSE allRatings[i]]
  ELSE Append(allRatings, ratingData)

RateMovie(userId, movieId, rating) ==
  /\ locals.steps < MaxCacheSteps
  /\ ratings' = createOrUpdateRating(ratings, Rating(userId, movieId, rating, rating > 3))
  /\ locals' = [locals EXCEPT !.steps = @ + 1]
  /\ UNCHANGED <<movies, response, cache, now>>

Tick ==
  /\ locals.steps < MaxCacheSteps
  /\ now' = now + ClockStep
  /\ locals' = [locals EXCEPT !.steps = @ + 1]
  /\ UNCHANGED <<movies, ratings, response, cache>>

\* The controller's getRecommendations: the recommender is invoked on every
\* request, the cache neither asked nor told
ServeRecommendations(userId, algorithm) ==
  /\ locals.steps < MaxCacheSteps
  /\ response' = [status |-> "served", userId |-> userId, algorithm |-> algorithm,
                  data |-> rankingFor(userId, algorithm), computed |-> TRUE,
                  held |-> NodeCache_has(cache, recommendationsKey(userId, algorithm)),
                  step |-> locals.steps + 1]
  /\ locals' = [locals EXCEPT !.steps = @ + 1]
  /\ UNCHANGED <<movies, ratings, cache, now>>

CacheNext ==
  \/ \E userId \in CacheUsers, algorithm \in CacheAlgorithms : SetRecommendations(userId, algorithm)
  \/ \E userId \in CacheUsers : SetAIResponse(userId)
  \/ \E genre \in CacheGenres : SetGenreRecommendations(genre)
  \/ \E i \in 1..Len(movies) : SetMovie(i)
  \/ \E userId \in CacheUsers, algorithm \in CacheAlgorithms : GetRecommendations_cached(userId, algorithm)
  \/ \E userId \in CacheUsers : GetAIResponse(userId)
  \/ \E genre \in CacheGenres : GetGenreRecommendations(genre)
  \/ OnMovieCreate
  \/ \E movieId \in CacheMovieIds : OnMovieUpdate(movieId)
  \/ \E movieId \in CacheMovieIds : OnMovieDelete(movieId)
  \/ \E userId \in CacheUsers : OnUserRating(userId)
  \/ \E userId \in CacheUsers, movieId \in CacheMovieIds, rating \in CacheRatingValues :
       RateMovie(userId, movieId, rating)
  \/ Tick
  \/ \E userId \in CacheUsers, algorithm \in CacheAlgorithms : ServeRecommendations(userId, algorithm)

SpecCache == CacheInit /\ [][CacheNext]_vars

-----------------------------------------------------------------------------
(* Claims about the cache *)

\* The key of a ranking: of a subject under a strategy, of the external AI,
\* or of a category
IsRankingKey(key) ==
  \/ startsWith(key, <<"recommendations", "-">>)
  \/ startsWith(key, <<"ai", "-">>)
  \/ startsWith(key, <<"genre", "-">>)

ItemNotified == response.status \in {"onMovieCreate", "onMovieUpdate", "onMovieDelete"}

\* C16: once onMovieCreate, onMovieUpdate or onMovieDelete has run, the cache
\* holds no ranking of any subject under any strategy, the external AI's and
\* the categories' included.
NoRankingAfterItemChange ==
  ItemNotified => \A key \in DOMAIN cache : ~IsRankingKey(key)

\* Lemma: the rankings stored by setRecommendations are all gone after an
\* item notification.
NoGeneralRankingAfterItemChange ==
  ItemNotified => \A key \in DOMAIN cache : ~startsWith(key, <<"recommendations", "-">>)

\* The entry holds a ranking computed for the subject
OwnedBy(entry, userId) == "userId" \in DOMAIN entry.v /\ entry.v.userId = userId

\* C17: once onUserRating(u) has run, no ranking of u is left in the cache and
\* every entry that is not a ranking of u is there as it was before.
RatingNotificationFrame ==
  response.status = "onUserRating" =>
    /\ \A key \in DOMAIN cache : ~OwnedBy(cache[key], response.subject)
    /\ \A key \in DOMAIN response.before :
         ~OwnedBy(response.before[key], response.subject)
           => (key \in DOMAIN cache /\ cache[key] = response.before[key])

LookedUp ==
  response.status \in {"getRecommendations", "getAIResponse", "getGenreRecommendations"}

\* The last lookup asked for the key of the last store, after it, within its
\* time to live and with no notification in between
LookupOfLastStore ==
  /\ LookedUp
  /\ locals.last.valid
  /\ response.step > locals.last.step
  /\ response.key = locals.last.key
  /\ response.at <= locals.last.at + locals.last.ttl

\* Lemma: such a lookup answers the stored ranking.
StoredRankingReturned ==
  LookupOfLastStore => (response.hit /\ response.data = locals.last.v)

\* C18: a lookup of a stored ranking within its time to live and with no
\* invalidation in between answers that ranking, and a request for a ranking
\* the cache holds is answered without invoking the recommender again.
RoundTripWithoutRecomputation ==
  /\ StoredRankingReturned
  /\ (response.status = "served" /\ response.held) => ~response.computed

\* C19: a lookup for a subject under a strategy never answers a ranking
\* computed for a liked set other than the one the subject has at the lookup.
LookupNeverStale ==
  (/\ response.status \in {"getRecommendations", "getAIResponse"}
   /\ response.step = locals.steps
   /\ response.hit)
    => response.data.likedMovieIds = Range(likedMovieIdsOf(response.userId))

\* Lemma: the lookups of external-AI rankings, keyed by the hash of the liked
\* set, are never stale.
AILookupNeverStale ==
  (/\ response.status = "getAIResponse"
   /\ response.step = locals.steps
   /\ response.hit)
    => response.data.likedMovieIds = Range(likedMovieIdsOf(response.userId))

-----------------------------------------------------------------------------
(* The neighbourhood on its own: findSimilarUsers for a target among enough
   subjects for the cut at 10 to happen *)

MaxNeighbourUsers == 12

\* db.getAllUsers(): the target first
NeighbourUsers == [i \in 1..MaxNeighbourUsers |-> "u" \o ToString(i)]

\* The ratings of the target for three movies
TargetVector == <<5, 3, 1>>

\* The ratings of another subject for the same movies: correlation 1, 1/2 and
\* 0 with the target's
NeighbourVectors == {<<5, 3, 1>>, <<3, 1, 2>>, <<4, 1, 4>>}

\* The subjects that can be uncorrelated with the target; the others are
\* above the threshold in every history
UncorrelatedCandidates == {"u2", "u4", "u6", "u8", "u10"}

\* The histories of the subjects other than the target
NeighbourHistories ==
  LET others == Range(Tail(NeighbourUsers))
  IN  {low @@ high :
         low \in [others \cap UncorrelatedCandidates -> NeighbourVectors],
         high \in [others \ UncorrelatedCandidates -> {<<5, 3, 1>>, <<3, 1, 2>>}]}

RatingsOfVector(userId, vector) ==
  [m \in 1..Len(vector) |-> Rating(userId, m, vector[m], vector[m] >= 4)]

RECURSIVE RatingsOfVectors(_, _)
RatingsOfVectors(users, vectorOf) ==
  IF Len(users) = 0 THEN <<>>
  ELSE RatingsOfVector(Head(users), vectorOf[Head(users)])
         \o RatingsOfVectors(Tail(users), vectorOf)

NeighbourInit ==
  /\ movies = <<MovieTable[1], MovieTable[2], MovieTable[3]>>
  /\ \E vectorOf \in NeighbourHistories :
       ratings = RatingsOfVector(NeighbourUsers[1], TargetVector)
                   \o RatingsOfVectors(Tail(NeighbourUsers), vectorOf)
  /\ response = NoResponse
  /\ locals = NoLocals
  /\ cache = NoCache
  /\ now = 0

FindSimilarUsers(targetUserId) ==
  /\ response = NoResponse
  /\ response' = [status |-> "findSimilarUsers", userId |-> targetUserId,
                  data |-> findSimilarUsers(targetUserId, ratings, NeighbourUsers)]
  /\ UNCHANGED <<movies, ratings, locals, cache, now>>

NeighbourNext == FindSimilarUsers(NeighbourUsers[1])

SpecNeighbours == NeighbourInit /\ [][NeighbourNext]_vars

NeighboursFound == response.status = "findSimilarUsers"

\* The similarity of a subject to the target of the answered call
SimilarityToTarget(userId) ==
  calculateUserSimilarity(ratingsOf(ratings, response.userId), ratingsOf(ratings, userId))

\* C25: the neighbourhood holds only subjects other than the target, each with
\* a similarity above 0.3, by similarity descending, at most 10 of them, and no
\* subject above the threshold that is left out is more similar than one that
\* is in.
NeighbourhoodAsStated ==
  NeighboursFound =>
    LET nb == response.data
        sim == [u \in Range(NeighbourUsers) |-> SimilarityToTarget(u)]
        out == {u \in Range(NeighbourUsers) \ {response.userId} :
                  AboveThreshold(sim[u]) /\ \A k \in 1..Len(nb) : nb[k].user # u}
    IN  /\ Len(nb) <= 10
        /\ \A i \in 1..Len(nb) :
             /\ nb[i].user # response.userId
             /\ nb[i].user \in Range(NeighbourUsers)
             /\ nb[i].similarity = sim[nb[i].user]
             /\ AboveThreshold(nb[i].similarity)
             /\ \A j \in 1..Len(nb) : i < j => ~SimGreater(nb[j].similarity, nb[i].similarity)
             /\ \A u \in out : ~SimGreater(sim[u], nb[i].similarity)

\* Eleven subjects are above the threshold, with different similarities: one
\* of them is cut
NeighbourhoodAsStatedWitness ==
  /\ NeighboursFound
  /\ Len(response.data) = 10
  /\ SimGreater(response.data[1].similarity, response.data[10].similarity)
  /\ \E u \in Range(NeighbourUsers) \ ({response.userId} \cup {response.data[k].user : k \in 1..10}) :
       AboveThreshold(SimilarityToTarget(u))

-----------------------------------------------------------------------------
(* Rating requests: POST /api/ratings/movie/:movieId of an authenticated
   subject, two of them in flight together with one hybrid scoring call.
   Every await of the handlers is a point where the others can run. *)

\* The movie ids a request can name; only those of the catalog exist
RatedMovieIds == {1, 9}

\* The request bodies: the rating is a number or absent, liked a boolean or
\* absent
RateBodies ==
  {[liked |-> TRUE],
   [rating |-> Num(5), liked |-> TRUE],
   [rating |-> Num(1), liked |-> FALSE],
   [rating |-> Rat(9, 2), liked |-> TRUE],
   [rating |-> Num(6), liked |-> TRUE],
   [rating |-> Num(5)]}

RateRequests == {"r1", "r2"}

\* RatingSchema.parse(req.body) does not throw
RatingSchema(body) ==
  /\ "liked" \in DOMAIN body
  /\ "rating" \in DOMAIN body => (Leq(Num(1), body.rating) /\ Leq(body.rating, Num(5)))

\* rating || 0
ratingOrZero(body) ==
  IF "rating" \in DOMAIN body /\ body.rating # Num(0) THEN body.rating ELSE Num(0)

\* The column rating is an Int: the client refuses any other number
IsInt(x) == x.d = 1

\* ratingData of rateMovie
ratingDataOf(userId, movieId, body) ==
  Rating(userId, movieId, ratingOrZero(body).n, body.liked)

hasRating(rows, userId, movieId) ==
  \E i \in 1..Len(rows) : rows[i].userId = userId /\ rows[i].movieId = movieId

\* prisma.rating.create without the unique index on (userId, movieId)
ratingCreate_noUnique(rows, ratingData) ==
  [ok |-> TRUE, rows |-> Append(rows, ratingData)]

\* The create branch of the upsert: the unique index on (userId, movieId)
\* refuses a second row
ratingCreate(rows, ratingData) ==
  IF hasRating(rows, ratingData.userId, ratingData.movieId)
  THEN [ok |-> FALSE, rows |-> rows]
  ELSE [ok |-> TRUE, rows |-> Append(rows, ratingData)]

\* The update branch of the upsert
ratingUpdate(rows, ratingData) ==
  IF hasRating(rows, ratingData.userId, ratingData.movieId)
  THEN [ok |-> TRUE, rows |-> createOrUpdateRating(rows, ratingData)]
  ELSE [ok |-> FALSE, rows |-> rows]

RateRequest(movieId, body) ==
  [pc |-> "validateBody", userId |-> "u1", movieId |-> movieId, body |-> body,
   found |-> FALSE, code |-> 0, error |-> ""]

NoHybridCall == [pc |-> "collaborative", allRatings |-> <<>>, userRatings |-> <<>>]

RateInit ==
  /\ movies = <<MovieTable[1], MovieTable[2]>>
  /\ ratings \in {<<Rating("u2", 1, 5, TRUE), Rating("u2", 2, 4, TRUE)>>,
                  <<Rating("u1", 1, 4, TRUE), Rating("u2", 1, 5, TRUE), Rating("u2", 2, 4, TRUE)>>}
  /\ response = NoResponse
  /\ \E m1 \in RatedMovieIds, b1, b2 \in RateBodies :
       locals = [req |-> [p \in RateRequests |->
                            IF p = "r1" THEN RateRequest(m1, b1) ELSE RateRequest(1, b2)],
                 hybrid |-> NoHybridCall,
                 written |-> <<>>]
  /\ cache = NoCache
  /\ now = 0

Answer(p, code, error) ==
  [locals EXCEPT !.req[p].pc = "done", !.req[p].code = code, !.req[p].error = error]

\* validateBody(RatingSchema)
ValidateBody(p) ==
  /\ locals.req[p].pc = "validateBody"
  /\ IF RatingSchema(locals.req[p].body)
     THEN locals' = [locals EXCEPT !.req[p].pc = "getMovieById"]
     ELSE locals' = Answer(p, 400, "Validation failed")
  /\ UNCHANGED <<movies, ratings, response, cache, now>>

\* rateMovie up to the await of db.getMovieById
GetMovieById(p) ==
  /\ locals.req[p].pc = "getMovieById"
  /\ IF Len(findMovie(movies, locals.req[p].movieId)) = 0
     THEN locals' = Answer(p, 404, "Movie not found")
     ELSE locals' = [locals EXCEPT !.req[p].pc = "upsert"]
  /\ UNCHANGED <<movies, ratings, response, cache, now>>

\* prisma.rating.upsert, its read: the arguments are checked, then the row is
\* looked for
UpsertFind(p) ==
  /\ locals.req[p].pc = "upsert"
  /\ IF ~IsInt(ratingOrZero(locals.req[p].body))
     THEN locals' = Answer(p, 500, "Failed to rate movie")
     ELSE locals' = [locals EXCEPT !.req[p].pc = "write",
                       !.req[p].found = hasRating(ratings, locals.req[p].userId,
                                                  locals.req[p].movieId)]
  /\ UNCHANGED <<movies, ratings, response, cache, now>>

\* prisma.rating.upsert, its write, and the answer of rateMovie; a native
\* upsert is the read followed at once by the write
UpsertWrite(p) ==
  /\ locals.req[p].pc = "write"
  /\ LET ratingData == ratingDataOf(locals.req[p].userId, locals.req[p].movieId,
                                    locals.req[p].body)
         done == IF locals.req[p].found THEN ratingUpdate(ratings, ratingData)
                 ELSE ratingCreate(ratings, ratingData)
         pair == <<ratingData.userId, ratingData.movieId>>
     IN  /\ ratings' = done.rows
         /\ IF done.ok
            THEN locals' = [Answer(p, 200, "") EXCEPT
                              !.written = [k \in DOMAIN locals.written \cup {pair} |->
                                             IF k = pair THEN ratingData ELSE locals.written[k]]]
            ELSE locals' = Answer(p, 500, "Failed to rate movie")
  /\ UNCHANGED <<movies, response, cache, now>>

\* generateHybridRecommendations up to the end of its collaborative part,
\* which reads db.getAllRatings()
HybridCollaborative ==
  /\ locals.hybrid.pc = "collaborative"
  /\ locals' = [locals EXCEPT !.hybrid = [pc |-> "content", allRatings |-> getAllRatings,
                                          userRatings |-> <<>>]]
  /\ UNCHANGED <<movies, ratings, response, cache, now>>

\* The content part, which reads db.getUserRatings(targetUserId), and the
\* combination of the two lists
HybridContent(limit) ==
  /\ locals.hybrid.pc = "content"
  /\ \E run \in generateHybridRecommendations(
                  "u1", movies, locals.hybrid.allRatings, getAllUsers,
                  getUserRatings("u1"), movies, limit) :
       response' = Response("u1", "hybrid", limit, run.data)
  /\ locals' = [locals EXCEPT !.hybrid.pc = "done", !.hybrid.userRatings = getUserRatings("u1")]
  /\ UNCHANGED <<movies, ratings, cache, now>>

RateNext ==
  \/ \E p \in RateRequests : ValidateBody(p)
  \/ \E p \in RateRequests : GetMovieById(p)
  \/ \E p \in RateRequests : UpsertFind(p)
  \/ \E p \in RateRequests : UpsertWrite(p)
  \/ HybridCollaborative
  \/ HybridContent(MaxLimit)

SpecRate == RateInit /\ [][RateNext]_vars

-----------------------------------------------------------------------------
(* Claims about rating requests *)

\* C21: whatever the interleaving of the rateMovie requests, the store holds
\* at most one rating for a subject and a movie, and it is the one of the
\* last write for them.
OneRatingPerPair ==
  /\ \A i, j \in 1..Len(ratings) :
       (ratings[i].userId = ratings[j].userId /\ ratings[i].movieId = ratings[j].movieId)
         => i = j
  /\ \A pair \in DOMAIN locals.written :
       \E i \in 1..Len(ratings) :
         /\ <<ratings[i].userId, ratings[i].movieId>> = pair
         /\ ratings[i] = locals.written[pair]

\* Both requests wrote, for the same movie and with different values
OneRatingPerPairWitness ==
  /\ \A p \in RateRequests : locals.req[p].pc = "done" /\ locals.req[p].code = 200
  /\ locals.req["r1"].movieId = locals.req["r2"].movieId
  /\ locals.req["r1"].body # locals.req["r2"].body
  /\ Len(ratingsOf(ratings, "u1")) = 1

\* Lemma: a request is answered 500 only if its rating is not an integer or
\* if another request created the row between its read and its write.
RefusedOnlyInRace ==
  \A p \in RateRequests :
    (locals.req[p].pc = "done" /\ locals.req[p].code = 500)
      => \/ ~IsInt(ratingOrZero(locals.req[p].body))
         \/ /\ ~locals.req[p].found
            /\ \E q \in RateRequests \ {p} : locals.req[q].code = 200

\* C22: every rating stored through rateMovie has an integer strength from 1
\* to 5, whatever the accepted body, one without a rating included.
StoredStrengthInRange ==
  \A pair \in DOMAIN locals.written : locals.written[pair].rating \in 1..5

\* The request names a movie the catalog does not have
MovieMissing(p) == locals.req[p].movieId \notin CatalogIds

\* C28: a step of rateMovie for a movie that does not exist answers 404
\* 'Movie not found' and leaves the ratings as they are.
MissingMovieAnswered404 ==
  [][\A p \in RateRequests :
       (/\ MovieMissing(p)
        /\ locals.req[p].pc # "validateBody"
        /\ locals'.req[p] # locals.req[p])
         => /\ locals'.req[p].pc = "done"
            /\ locals'.req[p].code = 404
            /\ locals'.req[p].error = "Movie not found"
            /\ ratings' = ratings]_vars

\* A request for a missing movie is answered while the other one has written
MissingMovieAnswered404Witness ==
  /\ MovieMissing("r1")
  /\ locals.req["r1"].pc = "done" /\ locals.req["r1"].code = 404
  /\ locals.req["r2"].pc = "done" /\ locals.req["r2"].code = 200
  /\ \A i \in 1..Len(ratings) : ratings[i].movieId \in CatalogIds

\* C27: the collaborative part and the content part of one hybrid call see the
\* same ratings of the subject, rating requests of the subject in between or
\* not.
HybridSeesOneSnapshot ==
  locals.hybrid.pc = "done"
    => Range(ratingsOf(locals.hybrid.allRatings, "u1")) = Range(locals.hybrid.userRatings)

-----------------------------------------------------------------------------
(* The external-AI cache key on its own: a caller holds an array of liked
   movie ids and hands it to setAIResponse and getAIResponse *)

MaxKeyCalls == 2

LikedIdStrings == {"1", "2", "3"}

\* The caller's array after a call: likedMovieIds.sort() sorts it in place
likedMovieIdsAfterCall(likedMovieIds) == sortIds(likedMovieIds)

KeyInit ==
  /\ movies = <<MovieTable[1], MovieTable[2]>>
  /\ ratings = <<>>
  /\ response = NoResponse
  /\ \E ids \in UNION {Perms(S) : S \in SUBSET LikedIdStrings} :
       locals = [steps |-> 0, passed |-> ids, likedMovieIds |-> ids]
  /\ cache = NoCache
  /\ now = 0

CallSetAIResponse(userId) ==
  /\ locals.steps < MaxKeyCalls
  /\ cache' = setAIResponse(cache, userId, locals.likedMovieIds, rankingFor(userId, "ai"))
  /\ response' = [status |-> "setAIResponse", userId |-> userId,
                  key |-> aiKey(userId, locals.likedMovieIds)]
  /\ locals' = [steps |-> locals.steps + 1, passed |-> locals.likedMovieIds,
                likedMovieIds |-> likedMovieIdsAfterCall(locals.likedMovieIds)]
  /\ UNCHANGED <<movies, ratings, now>>

CallGetAIResponse(userId) ==
  /\ locals.steps < MaxKeyCalls
  /\ response' = Lookup("getAIResponse", aiKey(userId, locals.likedMovieIds))
                   @@ [userId |-> userId]
  /\ cache' = NodeCache_afterGet(cache, aiKey(userId, locals.likedMovieIds))
  /\ locals' = [steps |-> locals.steps + 1, passed |-> locals.likedMovieIds,
                likedMovieIds |-> likedMovieIdsAfterCall(locals.likedMovieIds)]
  /\ UNCHANGED <<movies, ratings, now>>

KeyNext ==
  \/ \E userId \in CacheUsers : CallSetAIResponse(userId)
  \/ \E userId \in CacheUsers : CallGetAIResponse(userId)

SpecKey == KeyInit /\ [][KeyNext]_vars

KeyComputed == response.status \in {"setAIResponse", "getAIResponse"}

\* Lemma: the key is the same for every order of the ids that were passed.
KeyIgnoresOrder ==
  KeyComputed =>
    \A ids \in Perms(Range(locals.passed)) : aiKey(response.userId, ids) = response.key

\* C30: setAIResponse and getAIResponse compute the same key for every order
\* of the same liked ids, and the caller's array is after the call as it was
\* passed, the same elements in the same order.
KeyPureAndArrayUntouched ==
  /\ KeyIgnoresOrder
  /\ KeyComputed => locals.likedMovieIds = locals.passed

-----------------------------------------------------------------------------
(* Storage reads that fail: one read of the storage collaborator rejects for
   the duration of a request, and the try/catch of each recommender decides
   what the request gets *)

StorageReads == {"getAllRatings", "getAllUsers", "getUserRatings", "getMovieById"}

Faults == {"none"} \cup StorageReads

\* The favourable ratings generateContentBasedRecommendations calls
\* db.getMovieById for
favourableRatings(userRatings) == SelectSeq(userRatings, LAMBDA r : r.liked /\ r.rating >= 4)

\* The try block of generateCollaborativeRecommendations throws
collaborativeThrows(fault) == fault \in {"getAllRatings", "getAllUsers"}

\* The try block of generateContentBasedRecommendations throws
contentThrows(fault, userRatings) ==
  \/ fault = "getUserRatings"
  \/ fault = "getMovieById" /\ Len(favourableRatings(userRatings)) > 0

\* catch (error): an empty list where the source returns the popular movies
catchPopularMovies_empty(allMovies, limit) == <<>>

\* catch (error) { return this.getPopularMovies(allMovies, limit) }
catchPopularMovies(allMovies, limit) == getPopularMovies(allMovies, limit)

\* generateCollaborativeRecommendations with its try/catch
tryCollaborative(fault, targetUserId, allMovies, allRatings, users, limit) ==
  IF collaborativeThrows(fault) THEN {catchPopularMovies(allMovies, limit)}
  ELSE generateCollaborativeRecommendations(targetUserId, allMovies, allRatings, users, limit)

\* generateContentBasedRecommendations with its try/catch
tryContent(fault, targetUserId, allMovies, userRatings, dbMovies, limit) ==
  IF contentThrows(fault, userRatings) THEN {catchPopularMovies(allMovies, limit)}
  ELSE generateContentBasedRecommendations(targetUserId, allMovies, userRatings, dbMovies, limit)

FaultCatalogs == {c \in Catalogs : Len(c) = 2}

FaultLocals(fault, thrown, collaborativeRecs, contentBasedRecs) ==
  [fault |-> fault, thrown |-> thrown,
   collaborativeRecs |-> collaborativeRecs, contentBasedRecs |-> contentBasedRecs]

FaultInit ==
  /\ movies \in FaultCatalogs
  /\ \E r1 \in RatingVectors("u1"), r2 \in RatingVectors("u2") : ratings = r1 \o r2
  /\ response = NoResponse
  /\ locals = FaultLocals("none", FALSE, <<>>, <<>>)
  /\ cache = NoCache
  /\ now = 0

CollaborativeWithFault(userId, limit, fault) ==
  /\ response = NoResponse
  /\ \E data \in tryCollaborative(fault, userId, movies, getAllRatings, getAllUsers, limit) :
       response' = Response(userId, "collaborative", limit, data)
  /\ locals' = FaultLocals(fault, collaborativeThrows(fault), <<>>, <<>>)
  /\ UNCHANGED <<movies, ratings, cache, now>>

ContentWithFault(userId, limit, fault) ==
  /\ response = NoResponse
  /\ \E data \in tryContent(fault, userId, movies, getUserRatings(userId), movies, limit) :
       response' = Response(userId, "content", limit, data)
  /\ locals' = FaultLocals(fault, contentThrows(fault, getUserRatings(userId)), <<>>, <<>>)
  /\ UNCHANGED <<movies, ratings, cache, now>>

\* generateHybridRecommendations: each part catches its own failure, so the
\* try block of the hybrid recommender does not throw
HybridWithFault(userId, limit, fault) ==
  /\ response = NoResponse
  /\ \E collaborativeRecs \in tryCollaborative(fault, userId, movies, getAllRatings,
                                               getAllUsers, collaborativeShare(limit)),
        contentBasedRecs \in tryContent(fault, userId, movies, getUserRatings(userId),
                                        movies, contentShare(limit)) :
       /\ \E data \in combineRecommendations(collaborativeRecs, contentBasedRecs, limit) :
            response' = Response(userId, "hybrid", limit, data)
       /\ locals' = FaultLocals(fault,
                      collaborativeThrows(fault) \/ contentThrows(fault, getUserRatings(userId)),
                      collaborativeRecs, contentBasedRecs)
  /\ UNCHANGED <<movies, ratings, cache, now>>

FaultNext ==
  \E userId \in Subjects, limit \in Limits, fault \in Faults :
    \/ CollaborativeWithFault(userId, limit, fault)
    \/ ContentWithFault(userId, limit, fault)
    \/ HybridWithFault(userId, limit, fault)

SpecFault == FaultInit /\ [][FaultNext]_vars

\* The request was answered and a storage read of it had failed
AnsweredAfterFailure == Answered /\ locals.thrown

\* C29: when a storage read fails, the collaborative, the content and the
\* hybrid recommender each return the popularity fallback of the catalog and
\* of the limit they were given.
FailureGetsPopularityFallback ==
  AnsweredAfterFailure => response.data = getPopularMovies(movies, response.limit)

\* The amended statement: the collaborative and the content recommender return
\* the popularity fallback; the hybrid recommender merges the lists of its two
\* parts, of which every part whose read failed is the popularity fallback of
\* the part's share of the limit.
FailureFallsBackPerPart ==
  AnsweredAfterFailure =>
    /\ response.algorithm \in {"collaborative", "content"}
         => response.data = getPopularMovies(movies, response.limit)
    /\ response.algorithm = "hybrid" =>
         /\ collaborativeThrows(locals.fault)
              => locals.collaborativeRecs
                   = getPopularMovies(movies, collaborativeShare(response.limit))
         /\ contentThrows(locals.fault, getUserRatings(response.userId))
              => locals.contentBasedRecs
                   = getPopularMovies(movies, contentShare(response.limit))
         /\ response.data \in combineRecommendations(
                                locals.collaborativeRecs, locals.contentBasedRecs, response.limit)

\* A hybrid request whose collaborative read failed, answered with a list that
\* is not the popularity fallback of the request
FailureFallsBackPerPartWitness ==
  /\ AnsweredAfterFailure
  /\ response.algorithm = "hybrid"
  /\ locals.fault = "getAllRatings"
  /\ Len(ratingsOf(ratings, response.userId)) > 0
  /\ Len(locals.collaborativeRecs) > 0
  /\ response.data # getPopularMovies(movies, response.limit)

====
